---- MODULE Spec2Model ----
(***************************************************************************)
(* Cohesion analysis of eslint-plugin-code-complete.                       *)
(*                                                                         *)
(* The two cohesion rules (low-function-cohesion, low-class-cohesion) are  *)
(* ESLint listeners: a walker calls their handlers on entering and leaving *)
(* the nodes of a syntax tree.  The state is the listeners' closure state  *)
(* (functionStack, blockStack, classStack, currentMethod), the findings    *)
(* handed to context.report, and the walker's own position (open).         *)
(*                                                                         *)
(* Variable names of the analysed program are modelled as integers, member *)
(* names of classes as strings.  Source lines of blocks (startLine,        *)
(* endLine, lineRanges) only feed the message text and are left out.       *)
(***************************************************************************)
EXTENDS Integers, Sequences, FiniteSets, TLC

VARIABLES
  rule,           \* which rule's listener the traversal drives
  options,        \* context.options[0] of that rule
  functionStack,  \* low-function-cohesion: FunctionContext[]
  blockStack,     \* low-function-cohesion: VariableUsage[]
  classStack,     \* low-class-cohesion: ClassContext[]
  currentMethod,  \* low-class-cohesion: id of the current MethodInfo, 0 = null
  reports,        \* findings given to context.report, in order
  lastAnalysis,   \* the unit last analysed and what the analysis returned
  open,           \* walker: the nodes entered and not yet left
  nextId,         \* walker: number of nodes entered so far
  idents,         \* walker: number of identifier / member events so far
  depthStack,            \* max-nesting-depth: number[]
  currentDepth,          \* max-nesting-depth
  nestingPathStack,      \* max-nesting-depth: NestingInfo[]
  nestingPathSaveStack,  \* max-nesting-depth: NestingInfo[][]
  variableDeclarations,  \* no-late-variable-usage: Map<string, number>
  scopes,                \* no-late-variable-usage: string[][]
  line,           \* walker, no-late-variable-usage: line of the last event
  bindings        \* walker, no-late-variable-usage: for each open scope, the
                  \* variables declared in it, with the line of the
                  \* declaration and of the first reference (0: none yet)

\* the closure state of the max-nesting-depth and no-late-variable-usage
\* listeners, the latter with the walker's view of its traversal
nestingVars == <<depthStack, currentDepth, nestingPathStack, nestingPathSaveStack>>
lateVars == <<variableDeclarations, scopes, line, bindings>>
\* the closure state of the two cohesion listeners
cohesionVars ==
  <<functionStack, blockStack, classStack, currentMethod, lastAnalysis>>

vars == <<rule, options, functionStack, blockStack, classStack, currentMethod,
          reports, lastAnalysis, open, nextId, idents, nestingVars, lateVars>>

\* the closure state right after create(context)
InitCohesion ==
  /\ functionStack = <<>>
  /\ blockStack = <<>>
  /\ classStack = <<>>
  /\ currentMethod = 0
  /\ lastAnalysis = <<>>
InitNesting ==
  /\ depthStack = <<>>
  /\ currentDepth = 0
  /\ nestingPathStack = <<>>
  /\ nestingPathSaveStack = <<>>
InitLate ==
  /\ variableDeclarations = <<>>
  /\ scopes = << <<>> >>
  /\ line = 1
  /\ bindings = << <<>> >>

(***************************************************************************)
(* Bounds of the explored traversals and inputs.                           *)
(***************************************************************************)
\* nodes (units, control structures, methods) entered in one traversal
MaxNodes == 3
\* Identifier / MemberExpression events in one traversal
MaxIdents == 3
\* nesting depth of open nodes
MaxDepth == 3
\* names read by the control structures of SpecVacuous
MaxVar == 2
\* control structures / methods of a unit handed to the analysis directly
MaxInputBlocks == 3
\* names of the small usages handed to the analysis directly
MaxInputVar == 2

\* identifier names met during a traversal (names are numbered)
Vars == {1, 2}
BlockTypes == {"if", "for"}
\* a node has one type: the control structures the walker numbers evenly are
\* IfStatements, the others ForStatements
BlockTypeOf(id) == IF id % 2 = 0 THEN "if" ELSE "for"
\* node.loc of a unit: NoLoc when absent; the walker always supplies a span.
\* The handlers read a node's span and type only when the node is left, so the
\* walker fixes them with the exit event.
NoLoc == [start |-> 0, end |-> 0]
UnitLocs == {[start |-> 1, end |-> 9], [start |-> 1, end |-> 10]}
\* identifier positions the walker produces
IdentifierRoles == {"memberProperty", "declaratorId", "assignmentLeft", "param", "other"}
FunctionOptions ==
  { <<>>, [minSharedVariablePercentage |-> 50, minFunctionLength |-> 9] }

(***************************************************************************)
(* Generic helpers.                                                        *)
(***************************************************************************)
Last(s) == s[Len(s)]
Front(s) == SubSeq(s, 1, Len(s) - 1)
Range(s) == {s[k] : k \in DOMAIN s}

(***************************************************************************)
(* low-function-cohesion: create() and the analysis.                       *)
(***************************************************************************)
DEFAULT_MIN_SHARED == 30
DEFAULT_MIN_LENGTH == 10

\* mutant: options.x ?? dflt, only an absent option gives dflt
OrDefault_Nullish(opts, key, dflt) ==
  IF key \in DOMAIN opts THEN opts[key] ELSE dflt

\* options.x || dflt : an absent option and the falsy value 0 give dflt
OrDefault(opts, key, dflt) ==
  IF key \in DOMAIN opts /\ opts[key] # 0 THEN opts[key] ELSE dflt

\* the closure constants of create(context)
create(opts) ==
  [minSharedVariablePercentage |->
       OrDefault(opts, "minSharedVariablePercentage", DEFAULT_MIN_SHARED),
   minFunctionLength |->
       OrDefault(opts, "minFunctionLength", DEFAULT_MIN_LENGTH)]

allVars(block) == block.variables.reads \cup block.variables.writes

(***************************************************************************)
(* A score is the double (num/den), one ulp below it when short is TRUE.   *)
(* (s/u)*100 in IEEE-754 double arithmetic is the exact percentage except  *)
(* that, where the exact percentage is the integer 29, 57 or 58, the       *)
(* rounded quotient times 100 rounds to the double just below it           *)
(* ((29/100)*100 = 28.999999999999996, (29/50)*100 = 57.99999999999999).   *)
(* A non-integer percentage is further from every integer than the         *)
(* rounding error, so its comparisons with integers are exact.             *)
(***************************************************************************)
FloatShortfall(s, u) ==
  \E p \in {29, 57, 58} : 100 * s = p * u

\* mutant: only the names a block reads are compared
calculateOverlapPercentage_ReadsOnly(block1, block2) ==
  LET allVars1 == block1.variables.reads
      allVars2 == block2.variables.reads
      sharedVars == allVars1 \cap allVars2
      unionVars == allVars1 \cup allVars2
  IN IF Cardinality(allVars1) = 0 \/ Cardinality(allVars2) = 0
     THEN [num |-> 100, den |-> 1, short |-> FALSE]
     ELSE [num |-> 100 * Cardinality(sharedVars),
           den |-> Cardinality(unionVars),
           short |-> FloatShortfall(Cardinality(sharedVars), Cardinality(unionVars))]

\* mutant: the fallback applies only when both blocks are empty
calculateOverlapPercentage_BothEmpty(block1, block2) ==
  LET allVars1 == allVars(block1)
      allVars2 == allVars(block2)
      sharedVars == allVars1 \cap allVars2
      unionVars == allVars1 \cup allVars2
  IN IF Cardinality(allVars1) = 0 /\ Cardinality(allVars2) = 0
     THEN [num |-> 100, den |-> 1, short |-> FALSE]
     ELSE [num |-> 100 * Cardinality(sharedVars),
           den |-> Cardinality(unionVars),
           short |-> FloatShortfall(Cardinality(sharedVars), Cardinality(unionVars))]

calculateOverlapPercentage(block1, block2) ==
  LET allVars1 == allVars(block1)
      allVars2 == allVars(block2)
      sharedVars == allVars1 \cap allVars2
      unionVars == allVars1 \cup allVars2
  IN IF Cardinality(allVars1) = 0 \/ Cardinality(allVars2) = 0
     THEN [num |-> 100, den |-> 1, short |-> FALSE]
     ELSE [num |-> 100 * Cardinality(sharedVars),
           den |-> Cardinality(unionVars),
           short |-> FloatShortfall(Cardinality(sharedVars), Cardinality(unionVars))]

\* overlapPercentage >= minSharedVariablePercentage, on doubles
ScoreAtLeast(score, threshold) ==
  IF score.short THEN score.num > threshold * score.den
  ELSE score.num >= threshold * score.den

RECURSIVE GCD(_, _)
GCD(a, b) == IF b = 0 THEN a ELSE GCD(b, a % b)

\* totalOverlap += overlapPercentage, as an exact fraction in lowest terms
AddScore(total, score) ==
  LET n == total.num * score.den + score.num * total.den
      d == total.den * score.den
      g == GCD(n, d)
  IN [num |-> n \div g, den |-> d \div g]

\* the pair loops of analyzeFunctionCohesion: edges[i].push(j); edges[j].push(i)
RECURSIVE BuildEdges(_, _, _, _, _)
BuildEdges(blocks, minShared, i, j, acc) ==
  IF i > Len(blocks) THEN acc
  ELSE IF j > Len(blocks) THEN BuildEdges(blocks, minShared, i + 1, i + 2, acc)
  ELSE LET overlapPercentage == calculateOverlapPercentage(blocks[i], blocks[j])
           edges2 == IF ScoreAtLeast(overlapPercentage, minShared)
                     THEN [acc.edges EXCEPT ![i] = Append(@, j), ![j] = Append(@, i)]
                     ELSE acc.edges
       IN BuildEdges(blocks, minShared, i, j + 1,
                     [edges |-> edges2,
                      totalOverlap |-> AddScore(acc.totalOverlap, overlapPercentage),
                      pairCount |-> acc.pairCount + 1])

\* Math.round((totalOverlap / pairCount) * 10) / 10, in tenths of a percent;
\* Math.round rounds a tie upwards
RoundedAverage(totalOverlap, pairCount) ==
  IF pairCount > 0
  THEN (20 * totalOverlap.num + totalOverlap.den * pairCount)
          \div (2 * totalOverlap.den * pairCount)
  ELSE 0

\* for (const neighbor of edges[current]) if (!visited.has(neighbor)) ...
RECURSIVE VisitNeighbors(_, _, _, _)
VisitNeighbors(neighbors, k, visited, queue) ==
  IF k > Len(neighbors) THEN [visited |-> visited, queue |-> queue]
  ELSE IF neighbors[k] \in visited
       THEN VisitNeighbors(neighbors, k + 1, visited, queue)
       ELSE VisitNeighbors(neighbors, k + 1, visited \cup {neighbors[k]},
                           Append(queue, neighbors[k]))

\* mutant: the search stops at the direct neighbours of the start block
BfsLoop_Shallow(edges, queue, visited, group) ==
  LET current == Head(queue)
      r == VisitNeighbors(edges[current], 1, visited, Tail(queue))
  IN [visited |-> r.visited, group |-> Append(group, current) \o r.queue]

\* while (queue.length > 0) { current = queue.shift(); ... }
RECURSIVE BfsLoop(_, _, _, _)
BfsLoop(edges, queue, visited, group) ==
  IF Len(queue) = 0 THEN [visited |-> visited, group |-> group]
  ELSE LET current == Head(queue)
           r == VisitNeighbors(edges[current], 1, visited, Tail(queue))
       IN BfsLoop(edges, r.queue, r.visited, Append(group, current))

\* the variables of a group, in insertion order of a JavaScript Set, are
\* kept as a set: only membership is observable in the finding
GroupOf(blocks, groupBlockIndices) ==
  [blockIndices |-> groupBlockIndices,
   sharedVariables |-> UNION {allVars(blocks[groupBlockIndices[k]]) :
                                k \in DOMAIN groupBlockIndices},
   blockTypes |-> [k \in DOMAIN groupBlockIndices |->
                     blocks[groupBlockIndices[k]].blockType]]

\* mutant: the visited set is not carried from one group to the next
RECURSIVE FindGroups_ForgetVisited(_, _, _, _, _)
FindGroups_ForgetVisited(blocks, edges, i, visited, groups) ==
  IF i > Len(blocks) THEN groups
  ELSE IF i \in visited
  THEN FindGroups_ForgetVisited(blocks, edges, i + 1, visited, groups)
  ELSE LET r == BfsLoop(edges, <<i>>, visited \cup {i}, <<>>)
       IN FindGroups_ForgetVisited(blocks, edges, i + 1, visited,
                                   Append(groups, GroupOf(blocks, r.group)))

\* for (let i = 0; i < blocks.length; i++) if (!visited.has(i)) ...
RECURSIVE FindGroups(_, _, _, _, _)
FindGroups(blocks, edges, i, visited, groups) ==
  IF i > Len(blocks) THEN groups
  ELSE IF i \in visited THEN FindGroups(blocks, edges, i + 1, visited, groups)
  ELSE LET r == BfsLoop(edges, <<i>>, visited \cup {i}, <<>>)
       IN FindGroups(blocks, edges, i + 1, r.visited,
                     Append(groups, GroupOf(blocks, r.group)))

\* edges is the adjacency list the analysis built (not part of the returned
\* object in the source; kept to state properties of the graph)
defaultResult ==
  [isLowCohesion |-> FALSE, componentCount |-> 0, averageOverlap |-> 0,
   groups |-> <<>>, edges |-> <<>>]

\* mutant: a function of exactly the minimum length is skipped
analyzeFunctionCohesion_StrictLength(functionContext, cfg) ==
  LET blocks == functionContext.blocks
      loc == functionContext.node.loc
      functionLength == loc.end - loc.start + 1
  IN IF loc = NoLoc THEN defaultResult
     ELSE IF functionLength <= cfg.minFunctionLength THEN defaultResult
     ELSE IF Len(blocks) < 2 THEN defaultResult
     ELSE LET acc == BuildEdges(blocks, cfg.minSharedVariablePercentage, 1, 2,
                                [edges |-> [k \in 1..Len(blocks) |-> <<>>],
                                 totalOverlap |-> [num |-> 0, den |-> 1],
                                 pairCount |-> 0])
              groups == FindGroups(blocks, acc.edges, 1, {}, <<>>)
          IN [isLowCohesion |-> Len(groups) > 1,
              componentCount |-> Len(groups),
              averageOverlap |-> RoundedAverage(acc.totalOverlap, acc.pairCount),
              groups |-> groups,
              edges |-> acc.edges]

\* mutant: a function called customThresholdFunction is never low cohesion
analyzeFunctionCohesion_ByName(functionContext, cfg) ==
  LET blocks == functionContext.blocks
      loc == functionContext.node.loc
      functionLength == loc.end - loc.start + 1
  IN IF loc = NoLoc THEN defaultResult
     ELSE IF functionLength < cfg.minFunctionLength THEN defaultResult
     ELSE IF Len(blocks) < 2 THEN defaultResult
     ELSE IF "name" \in DOMAIN functionContext.node
             /\ functionContext.node.name = "customThresholdFunction"
     THEN defaultResult
     ELSE LET acc == BuildEdges(blocks, cfg.minSharedVariablePercentage, 1, 2,
                                [edges |-> [k \in 1..Len(blocks) |-> <<>>],
                                 totalOverlap |-> [num |-> 0, den |-> 1],
                                 pairCount |-> 0])
              groups == FindGroups(blocks, acc.edges, 1, {}, <<>>)
          IN [isLowCohesion |-> Len(groups) > 1,
              componentCount |-> Len(groups),
              averageOverlap |-> RoundedAverage(acc.totalOverlap, acc.pairCount),
              groups |-> groups,
              edges |-> acc.edges]

\* Block indices are 1-based here (0-based in the source).
analyzeFunctionCohesion(functionContext, cfg) ==
  LET blocks == functionContext.blocks
      loc == functionContext.node.loc
      functionLength == loc.end - loc.start + 1
  IN IF loc = NoLoc THEN defaultResult
     ELSE IF functionLength < cfg.minFunctionLength THEN defaultResult
     ELSE IF Len(blocks) < 2 THEN defaultResult
     ELSE LET acc == BuildEdges(blocks, cfg.minSharedVariablePercentage, 1, 2,
                                [edges |-> [k \in 1..Len(blocks) |-> <<>>],
                                 totalOverlap |-> [num |-> 0, den |-> 1],
                                 pairCount |-> 0])
              groups == FindGroups(blocks, acc.edges, 1, {}, <<>>)
          IN [isLowCohesion |-> Len(groups) > 1,
              componentCount |-> Len(groups),
              averageOverlap |-> RoundedAverage(acc.totalOverlap, acc.pairCount),
              groups |-> groups,
              edges |-> acc.edges]

(***************************************************************************)
(* low-function-cohesion: the listener's handlers.                         *)
(***************************************************************************)
EmptyUsage == [reads |-> {}, writes |-> {}]

\* FunctionDeclaration / FunctionExpression / ArrowFunctionExpression
FunctionDeclaration ==
  /\ rule = "function"
  /\ functionStack' = Append(functionStack,
                             [node |-> nextId + 1, blocks |-> <<>>, variables |-> {}])
  /\ blockStack' = Append(blockStack, EmptyUsage)
  /\ open' = Append(open, [kind |-> "function", id |-> nextId + 1])
  /\ nextId' = nextId + 1
  /\ UNCHANGED <<nestingVars, lateVars, rule, options, classStack, currentMethod, reports, lastAnalysis, idents>>

\* the context with its node object: the stack holds the node's id, the
\* span is that of the node being left
WithNode(unitContext, node) ==
  IF unitContext.node = node.id THEN [unitContext EXCEPT !.node = node]
  ELSE [unitContext EXCEPT !.node = [id |-> unitContext.node, loc |-> NoLoc]]

\* `Function '${node.id.name}'` or 'Function'; a node has a name field when
\* node.id (or the declarator / property that holds the function) names it
getFunctionName(node) ==
  IF "name" \in DOMAIN node /\ node.name # "" THEN <<"Function", node.name>>
  ELSE <<"Function">>

\* the finding of context.report
FunctionFinding(node, analysis, cfg) ==
  [node |-> node.id,
   functionName |-> getFunctionName(node),
   componentCount |-> analysis.componentCount,
   averageOverlap |-> analysis.averageOverlap,
   minSharedVariablePercentage |-> cfg.minSharedVariablePercentage,
   groups |-> analysis.groups]

\* mutant: the finding is emitted whatever the verdict
FunctionDeclarationExit_AlwaysReport(node) ==
  /\ rule = "function"
  /\ Len(open) > 0
  /\ Last(open).kind = "function"
  /\ node.id = Last(open).id
  /\ open' = Front(open)
  /\ IF Len(functionStack) = 0
     THEN UNCHANGED <<functionStack, blockStack, reports, lastAnalysis>>
     ELSE LET currentFunction == WithNode(Last(functionStack), node)
              cfg == create(options)
              analysis == analyzeFunctionCohesion(currentFunction, cfg)
          IN /\ functionStack' = Front(functionStack)
             /\ blockStack' = IF Len(blockStack) = 0 THEN blockStack
                              ELSE Front(blockStack)
             /\ lastAnalysis' = <<[unit |-> currentFunction, result |-> analysis]>>
             /\ reports' = Append(reports, FunctionFinding(node, analysis, cfg))
  /\ UNCHANGED <<nestingVars, lateVars, rule, options, classStack, currentMethod, nextId, idents>>

\* mutant: the function's top-level frame is recorded as a block on exit
FunctionDeclarationExit_RecordTopLevel(node) ==
  /\ rule = "function"
  /\ Len(open) > 0
  /\ Last(open).kind = "function"
  /\ node.id = Last(open).id
  /\ open' = Front(open)
  /\ IF Len(functionStack) = 0
     THEN UNCHANGED <<functionStack, blockStack, reports, lastAnalysis>>
     ELSE LET popped == WithNode(Last(functionStack), node)
              currentFunction ==
                IF Len(blockStack) = 0 \/ Last(blockStack) = EmptyUsage THEN popped
                ELSE [popped EXCEPT !.blocks =
                        Append(@, [node |-> node.id, variables |-> Last(blockStack),
                                   blockType |-> "function"])]
              cfg == create(options)
              analysis == analyzeFunctionCohesion(currentFunction, cfg)
          IN /\ functionStack' = Front(functionStack)
             /\ blockStack' = IF Len(blockStack) = 0 THEN blockStack
                              ELSE Front(blockStack)
             /\ lastAnalysis' = <<[unit |-> currentFunction, result |-> analysis]>>
             /\ reports' = IF analysis.isLowCohesion
                           THEN Append(reports,
                                       FunctionFinding(node, analysis, cfg))
                           ELSE reports
  /\ UNCHANGED <<nestingVars, lateVars, rule, options, classStack, currentMethod, nextId, idents>>

\* mutant: a finding is emitted twice
FunctionExitHandler_ReportTwice(node) ==
  IF Len(functionStack) = 0
  THEN UNCHANGED <<functionStack, blockStack, reports, lastAnalysis>>
  ELSE LET currentFunction == WithNode(Last(functionStack), node)
           cfg == create(options)
           analysis == analyzeFunctionCohesion(currentFunction, cfg)
       IN /\ functionStack' = Front(functionStack)
          /\ blockStack' = IF Len(blockStack) = 0 THEN blockStack
                           ELSE Front(blockStack)
          /\ lastAnalysis' = <<[unit |-> currentFunction, result |-> analysis]>>
          /\ reports' = IF analysis.isLowCohesion
                        THEN Append(Append(reports, FunctionFinding(node, analysis, cfg)),
                                    FunctionFinding(node, analysis, cfg))
                        ELSE reports

\* the body of the three function exit handlers, called with node
FunctionExitHandler(node) ==
  IF Len(functionStack) = 0
  THEN UNCHANGED <<functionStack, blockStack, reports, lastAnalysis>>
  ELSE LET currentFunction == WithNode(Last(functionStack), node)
           cfg == create(options)
           analysis == analyzeFunctionCohesion(currentFunction, cfg)
       IN /\ functionStack' = Front(functionStack)
          /\ blockStack' = IF Len(blockStack) = 0 THEN blockStack
                           ELSE Front(blockStack)
          /\ lastAnalysis' = <<[unit |-> currentFunction, result |-> analysis]>>
          /\ reports' = IF analysis.isLowCohesion
                        THEN Append(reports, FunctionFinding(node, analysis, cfg))
                        ELSE reports

\* 'FunctionDeclaration:exit' / 'FunctionExpression:exit' / 'ArrowFunctionExpression:exit'
\* of the innermost open node
FunctionDeclarationExit(node) ==
  /\ rule = "function"
  /\ Len(open) > 0
  /\ Last(open).kind = "function"
  /\ node.id = Last(open).id
  /\ open' = Front(open)
  /\ FunctionExitHandler(node)
  /\ UNCHANGED <<nestingVars, lateVars, rule, options, classStack, currentMethod, nextId, idents>>

\* a function exit event for a node that was never entered, while no
\* function is open
StrayFunctionDeclarationExit(node) ==
  /\ rule = "function"
  /\ \A k \in DOMAIN open : open[k].kind # "function"
  /\ node.id = nextId + 1
  /\ nextId' = nextId + 1
  /\ FunctionExitHandler(node)
  /\ UNCHANGED <<nestingVars, lateVars, rule, options, classStack, currentMethod, open, idents>>

\* mutant: an accumulator is pushed also when no function is open
IfStatement_AlwaysPush ==
  /\ rule = "function"
  /\ open' = Append(open, [kind |-> "block", id |-> nextId + 1])
  /\ nextId' = nextId + 1
  /\ blockStack' = Append(blockStack, EmptyUsage)
  /\ UNCHANGED <<nestingVars, lateVars, rule, options, functionStack, classStack,
                 currentMethod, reports, lastAnalysis, idents>>

\* IfStatement / ForStatement / ... / TryStatement
IfStatement ==
  /\ rule = "function"
  /\ open' = Append(open, [kind |-> "block", id |-> nextId + 1])
  /\ nextId' = nextId + 1
  /\ blockStack' = IF Len(functionStack) = 0 THEN blockStack
                   ELSE Append(blockStack, EmptyUsage)
  /\ UNCHANGED <<nestingVars, lateVars, rule, options, functionStack, classStack, currentMethod,
                 reports, lastAnalysis, idents>>

\* mutant: an accumulator without reads and writes is recorded as a block
IfStatementExit_KeepEmpty(blockType) ==
  /\ rule = "function"
  /\ Len(open) > 0
  /\ Last(open).kind = "block"
  /\ open' = Front(open)
  /\ IF Len(functionStack) = 0 \/ Len(blockStack) <= 1
     THEN UNCHANGED <<functionStack, blockStack>>
     ELSE LET blockUsage == Last(blockStack)
              node == [id |-> Last(open).id, type |-> blockType]
          IN /\ blockStack' = Front(blockStack)
             /\ functionStack' =
                  [functionStack EXCEPT ![Len(functionStack)].blocks =
                     Append(@, [node |-> node.id,
                                variables |-> [reads |-> blockUsage.reads,
                                               writes |-> blockUsage.writes],
                                blockType |-> node.type])]
  /\ UNCHANGED <<nestingVars, lateVars, rule, options, classStack, currentMethod, reports, lastAnalysis,
                 nextId, idents>>

\* mutant: the block is appended to the outermost open function
IfStatementExit_Outermost(blockType) ==
  /\ rule = "function"
  /\ Len(open) > 0
  /\ Last(open).kind = "block"
  /\ open' = Front(open)
  /\ IF Len(functionStack) = 0 \/ Len(blockStack) <= 1
     THEN UNCHANGED <<functionStack, blockStack>>
     ELSE LET blockUsage == Last(blockStack)
              node == [id |-> Last(open).id, type |-> blockType]
          IN /\ blockStack' = Front(blockStack)
             /\ IF Cardinality(blockUsage.reads) = 0
                   /\ Cardinality(blockUsage.writes) = 0
                THEN UNCHANGED functionStack
                ELSE functionStack' =
                       [functionStack EXCEPT ![1].blocks =
                          Append(@, [node |-> node.id,
                                     variables |-> [reads |-> blockUsage.reads,
                                                    writes |-> blockUsage.writes],
                                     blockType |-> node.type])]
  /\ UNCHANGED <<nestingVars, lateVars, rule, options, classStack, currentMethod, reports, lastAnalysis,
                 nextId, idents>>

\* the body of the eight control-structure exit handlers, called with node
BlockExitHandler(node) ==
  IF Len(functionStack) = 0 \/ Len(blockStack) <= 1
  THEN UNCHANGED <<functionStack, blockStack>>
  ELSE LET blockUsage == Last(blockStack)
       IN /\ blockStack' = Front(blockStack)
          /\ IF Cardinality(blockUsage.reads) = 0
                /\ Cardinality(blockUsage.writes) = 0
             THEN UNCHANGED functionStack
             ELSE functionStack' =
                    [functionStack EXCEPT ![Len(functionStack)].blocks =
                       Append(@, [node |-> node.id,
                                  variables |-> [reads |-> blockUsage.reads,
                                                 writes |-> blockUsage.writes],
                                  blockType |-> node.type])]

\* 'IfStatement:exit' / 'ForStatement:exit' / ... / 'TryStatement:exit' of the
\* innermost open node
IfStatementExit(blockType) ==
  /\ rule = "function"
  /\ Len(open) > 0
  /\ Last(open).kind = "block"
  /\ open' = Front(open)
  /\ BlockExitHandler([id |-> Last(open).id, type |-> blockType])
  /\ UNCHANGED <<nestingVars, lateVars, rule, options, classStack, currentMethod, reports, lastAnalysis,
                 nextId, idents>>

\* a control-structure exit event for a node that was never entered, while
\* the innermost open node is not a control structure
StrayIfStatementExit(blockType) ==
  /\ rule = "function"
  /\ Len(open) > 0 => Last(open).kind # "block"
  /\ nextId' = nextId + 1
  /\ BlockExitHandler([id |-> nextId + 1, type |-> blockType])
  /\ UNCHANGED <<nestingVars, lateVars, rule, options, classStack, currentMethod, reports, lastAnalysis,
                 open, idents>>

\* Identifier(node): role is the position of the identifier under its parent
Identifier(name, role) ==
  /\ rule = "function"
  /\ role = "param" => (Len(open) > 0 /\ Last(open).kind = "function")
  /\ idents' = idents + 1
  /\ IF Len(functionStack) = 0 \/ Len(blockStack) = 0
     THEN UNCHANGED <<functionStack, blockStack>>
     ELSE IF role = "memberProperty"
     THEN UNCHANGED <<functionStack, blockStack>>
     ELSE /\ functionStack' =
               [functionStack EXCEPT ![Len(functionStack)].variables = @ \cup {name}]
          /\ IF role \in {"declaratorId", "assignmentLeft", "param"}
             THEN blockStack' =
                    [blockStack EXCEPT ![Len(blockStack)].writes = @ \cup {name}]
             ELSE blockStack' =
                    [blockStack EXCEPT ![Len(blockStack)].reads = @ \cup {name}]
  /\ UNCHANGED <<nestingVars, lateVars, rule, options, classStack, currentMethod, reports, lastAnalysis,
                 open, nextId>>

(***************************************************************************)
(* low-class-cohesion: create() and the analysis.                          *)
(* classContext.methods is a Map: a sequence of MethodInfo with distinct   *)
(* names, in insertion order.                                              *)
(***************************************************************************)
MemberNames == {"x", "y", "m1", "m2"}
IdentifierKey(n) == [type |-> "Identifier", name |-> n]
LiteralKey == [type |-> "Literal", name |-> ""]
MethodKeys == {IdentifierKey("m1"), IdentifierKey("m2"), LiteralKey}
MemberNodes ==
  [object : {"ThisExpression"}, property : {IdentifierKey(n) : n \in MemberNames}]
    \cup {[object |-> "Identifier", property |-> IdentifierKey("x")],
          [object |-> "ThisExpression", property |-> LiteralKey]}
ClassOptions == { <<>>, [minClassLength |-> 9] }

DEFAULT_MIN_CLASS_LENGTH == 10

createClass(opts) ==
  [minClassLength |-> OrDefault(opts, "minClassLength", DEFAULT_MIN_CLASS_LENGTH)]

\* Map.prototype.keys / get / set
MapKeys(methods) == [k \in DOMAIN methods |-> methods[k].name]
MapGet(methods, name) ==
  methods[CHOOSE k \in DOMAIN methods : methods[k].name = name]
MapSet(methods, info) ==
  IF \E k \in DOMAIN methods : methods[k].name = info.name
  THEN [k \in DOMAIN methods |->
          IF methods[k].name = info.name THEN info ELSE methods[k]]
  ELSE Append(methods, info)

\* mutant: only shared members make an edge, a call does not
RECURSIVE BuildClassEdges_SharedOnly(_, _, _, _, _)
BuildClassEdges_SharedOnly(methods, methodNames, i, j, edges) ==
  IF i > Len(methodNames) THEN edges
  ELSE IF j > Len(methodNames)
  THEN BuildClassEdges_SharedOnly(methods, methodNames, i + 1, i + 2, edges)
  ELSE LET method1 == MapGet(methods, methodNames[i])
           method2 == MapGet(methods, methodNames[j])
           sharedMembers == method1.usedMembers \cap method2.usedMembers
           edges2 ==
             IF Cardinality(sharedMembers) > 0
             THEN [edges EXCEPT ![methodNames[i]] = Append(@, methodNames[j]),
                                ![methodNames[j]] = Append(@, methodNames[i])]
             ELSE edges
       IN BuildClassEdges_SharedOnly(methods, methodNames, i, j + 1, edges2)

\* the pair loops of analyzeClassCohesion
RECURSIVE BuildClassEdges(_, _, _, _, _)
BuildClassEdges(methods, methodNames, i, j, edges) ==
  IF i > Len(methodNames) THEN edges
  ELSE IF j > Len(methodNames)
  THEN BuildClassEdges(methods, methodNames, i + 1, i + 2, edges)
  ELSE LET method1 == MapGet(methods, methodNames[i])
           method2 == MapGet(methods, methodNames[j])
           sharedMembers == method1.usedMembers \cap method2.usedMembers
           method1CallsMethod2 == methodNames[j] \in method1.usedMembers
           method2CallsMethod1 == methodNames[i] \in method2.usedMembers
           edges2 ==
             IF Cardinality(sharedMembers) > 0
                \/ method1CallsMethod2 \/ method2CallsMethod1
             THEN [edges EXCEPT ![methodNames[i]] = Append(@, methodNames[j]),
                                ![methodNames[j]] = Append(@, methodNames[i])]
             ELSE edges
       IN BuildClassEdges(methods, methodNames, i, j + 1, edges2)

RECURSIVE ClassVisitNeighbors(_, _, _, _)
ClassVisitNeighbors(neighbors, k, visited, queue) ==
  IF k > Len(neighbors) THEN [visited |-> visited, queue |-> queue]
  ELSE IF neighbors[k] \in visited
       THEN ClassVisitNeighbors(neighbors, k + 1, visited, queue)
       ELSE ClassVisitNeighbors(neighbors, k + 1, visited \cup {neighbors[k]},
                                Append(queue, neighbors[k]))

RECURSIVE ClassBfsLoop(_, _, _, _, _, _, _)
ClassBfsLoop(methods, methodNames, edges, queue, visited, compMethods, compFields) ==
  IF Len(queue) = 0
  THEN [visited |-> visited, methods |-> compMethods, fields |-> compFields]
  ELSE LET current == Head(queue)
           methodInfo == MapGet(methods, current)
           fields == {member \in methodInfo.usedMembers :
                        member \notin Range(methodNames)}
           r == ClassVisitNeighbors(edges[current], 1, visited, Tail(queue))
       IN ClassBfsLoop(methods, methodNames, edges, r.queue, r.visited,
                       Append(compMethods, current),
                       compFields \cup fields)

RECURSIVE FindComponents(_, _, _, _, _, _)
FindComponents(methods, methodNames, edges, i, visited, components) ==
  IF i > Len(methodNames) THEN components
  ELSE IF methodNames[i] \in visited
  THEN FindComponents(methods, methodNames, edges, i + 1, visited, components)
  ELSE LET r == ClassBfsLoop(methods, methodNames, edges, <<methodNames[i]>>,
                             visited \cup {methodNames[i]}, <<>>, {})
       IN FindComponents(methods, methodNames, edges, i + 1, r.visited,
                         Append(components,
                                [methods |-> r.methods, fields |-> r.fields]))

classDefaultResult ==
  [isLowCohesion |-> FALSE, componentCount |-> 0, components |-> <<>>,
   edges |-> <<>>]

analyzeClassCohesion(classContext, cfg) ==
  LET loc == classContext.node.loc
      classLength == loc.end - loc.start + 1
      methods == classContext.methods
  IN IF loc = NoLoc THEN classDefaultResult
     ELSE IF classLength < cfg.minClassLength THEN classDefaultResult
     ELSE IF Len(methods) < 2 THEN classDefaultResult
     ELSE LET methodNames == MapKeys(methods)
              edges == BuildClassEdges(methods, methodNames, 1, 2,
                                       [n \in Range(methodNames) |-> <<>>])
              components == FindComponents(methods, methodNames, edges, 1, {}, <<>>)
          IN [isLowCohesion |-> Len(components) > 1,
              componentCount |-> Len(components),
              components |-> components,
              edges |-> edges]

(***************************************************************************)
(* low-class-cohesion: the listener's handlers.                            *)
(***************************************************************************)
\* ClassDeclaration / ClassExpression
ClassDeclaration ==
  /\ rule = "class"
  /\ classStack' = Append(classStack, [node |-> nextId + 1, methods |-> <<>>])
  /\ open' = Append(open, [kind |-> "class", id |-> nextId + 1])
  /\ nextId' = nextId + 1
  /\ UNCHANGED <<nestingVars, lateVars, rule, options, functionStack, blockStack, currentMethod,
                 reports, lastAnalysis, idents>>

ClassFinding(node, analysis) ==
  [node |-> node.id,
   componentCount |-> analysis.componentCount,
   components |-> analysis.components]

\* the body of the two class exit handlers, called with node
ClassExitHandler(node) ==
  IF Len(classStack) = 0
  THEN UNCHANGED <<classStack, reports, lastAnalysis>>
  ELSE LET classContext == WithNode(Last(classStack), node)
           analysis == analyzeClassCohesion(classContext, createClass(options))
       IN /\ classStack' = Front(classStack)
          /\ lastAnalysis' = <<[unit |-> classContext, result |-> analysis]>>
          /\ reports' = IF analysis.isLowCohesion
                        THEN Append(reports, ClassFinding(node, analysis))
                        ELSE reports

\* 'ClassDeclaration:exit' / 'ClassExpression:exit' of the innermost open node
ClassDeclarationExit(node) ==
  /\ rule = "class"
  /\ Len(open) > 0
  /\ Last(open).kind = "class"
  /\ node.id = Last(open).id
  /\ open' = Front(open)
  /\ ClassExitHandler(node)
  /\ UNCHANGED <<nestingVars, lateVars, rule, options, functionStack, blockStack, currentMethod,
                 nextId, idents>>

\* a class exit event for a node that was never entered, while no class is
\* open
StrayClassDeclarationExit(node) ==
  /\ rule = "class"
  /\ \A k \in DOMAIN open : open[k].kind # "class"
  /\ node.id = nextId + 1
  /\ nextId' = nextId + 1
  /\ ClassExitHandler(node)
  /\ UNCHANGED <<nestingVars, lateVars, rule, options, functionStack, blockStack, currentMethod,
                 open, idents>>

\* MethodDefinition(node); the new MethodInfo is identified by its node id
MethodDefinition(node) ==
  /\ rule = "class"
  /\ Len(open) > 0
  /\ Last(open).kind = "class"
  /\ node.id = nextId + 1
  /\ open' = Append(open, [kind |-> "method", id |-> node.id])
  /\ nextId' = nextId + 1
  /\ IF Len(classStack) = 0 \/ node.kind = "constructor"
     THEN UNCHANGED <<classStack, currentMethod>>
     ELSE LET methodName == IF node.key.type = "Identifier" /\ node.key.name # ""
                            THEN node.key.name ELSE "anonymous"
              info == [name |-> methodName, node |-> node.id, usedMembers |-> {}]
          IN /\ currentMethod' = node.id
             /\ classStack' = [classStack EXCEPT ![Len(classStack)].methods =
                                 MapSet(@, info)]
  /\ UNCHANGED <<nestingVars, lateVars, rule, options, functionStack, blockStack, reports, lastAnalysis,
                 idents>>

\* 'MethodDefinition:exit'
MethodDefinitionExit ==
  /\ rule = "class"
  /\ Len(open) > 0
  /\ Last(open).kind = "method"
  /\ open' = Front(open)
  /\ currentMethod' = 0
  /\ UNCHANGED <<nestingVars, lateVars, rule, options, functionStack, blockStack, classStack, reports,
                 lastAnalysis, nextId, idents>>

\* currentMethod.usedMembers.add(name): the MethodInfo is shared with the
\* Map that holds it, if one still does
AddUsedMember(stack, methodId, name) ==
  [c \in DOMAIN stack |->
     [stack[c] EXCEPT !.methods =
        [k \in DOMAIN stack[c].methods |->
           IF stack[c].methods[k].node = methodId
           THEN [stack[c].methods[k] EXCEPT !.usedMembers = @ \cup {name}]
           ELSE stack[c].methods[k]]]]

\* MemberExpression(node)
MemberExpression(node) ==
  /\ rule = "class"
  /\ idents' = idents + 1
  /\ IF currentMethod = 0 \/ Len(classStack) = 0
     THEN UNCHANGED classStack
     ELSE IF node.object = "ThisExpression"
             /\ node.property.type = "Identifier" /\ node.property.name # ""
          THEN classStack' = AddUsedMember(classStack, currentMethod, node.property.name)
          ELSE UNCHANGED classStack
  /\ UNCHANGED <<nestingVars, lateVars, rule, options, functionStack, blockStack, currentMethod, reports,
                 lastAnalysis, open, nextId>>

(***************************************************************************)
(* max-nesting-depth: create() and the listener's handlers.  A node is      *)
(* [id, type, iife]: iife tells that the node's parent is a CallExpression  *)
(* whose callee is the node.  The line of a NestingInfo only feeds the      *)
(* message text and is left out.                                            *)
(***************************************************************************)
DEFAULT_MAX_DEPTH == 3

\* options.x !== undefined ? options.x : dflt
IfDefined(opts, key, dflt) == IF key \in DOMAIN opts THEN opts[key] ELSE dflt

createNesting(opts) ==
  [maxDepth |-> IfDefined(opts, "maxDepth", DEFAULT_MAX_DEPTH),
   ignoreTopLevelIIFE |-> IfDefined(opts, "ignoreTopLevelIIFE", TRUE)]

getNodeTypeName(node) ==
  IF node.type = "IfStatement" THEN "if"
  ELSE IF node.type = "WhileStatement" THEN "while"
  ELSE node.type

isTopLevelIIFE(node) == node.iife /\ Len(depthStack) = 0

\* the finding of context.report; nestingPath is the path formatNestingPath
\* prints
NestingFinding(node, depth, path) ==
  [node |-> node.id,
   depth |-> depth,
   maxDepth |-> createNesting(options).maxDepth,
   nestingPath |-> path]

\* mutant: a structure exactly at the limit is reported too
NestingStructureEntered_AtLimit(node) ==
  /\ currentDepth' = currentDepth + 1
  /\ nestingPathStack' = Append(nestingPathStack, getNodeTypeName(node))
  /\ reports' = IF currentDepth' >= createNesting(options).maxDepth
                THEN Append(reports,
                            NestingFinding(node, currentDepth', nestingPathStack'))
                ELSE reports

\* the body of enterNestingStructure(node)
NestingStructureEntered(node) ==
  /\ currentDepth' = currentDepth + 1
  /\ nestingPathStack' = Append(nestingPathStack, getNodeTypeName(node))
  /\ reports' = IF currentDepth' > createNesting(options).maxDepth
                THEN Append(reports,
                            NestingFinding(node, currentDepth', nestingPathStack'))
                ELSE reports

\* the body of exitNestingStructure()
NestingStructureLeft ==
  /\ currentDepth' = currentDepth - 1
  /\ nestingPathStack' = IF Len(nestingPathStack) = 0 THEN nestingPathStack
                         ELSE Front(nestingPathStack)

\* IfStatement / ForStatement / ... / WithStatement: enterNestingStructure
enterNestingStructure(node) ==
  /\ rule = "nesting"
  /\ node.id = nextId + 1
  /\ ~node.iife
  /\ node.type # "FunctionExpression"
  /\ open' = Append(open, [kind |-> "structure", id |-> node.id, iife |-> FALSE])
  /\ nextId' = nextId + 1
  /\ NestingStructureEntered(node)
  /\ UNCHANGED <<cohesionVars, lateVars, rule, options, idents, depthStack,
                 nestingPathSaveStack>>

\* 'IfStatement:exit' / ... / 'WithStatement:exit': exitNestingStructure
exitNestingStructure ==
  /\ rule = "nesting"
  /\ Len(open) > 0
  /\ Last(open).kind = "structure"
  /\ open' = Front(open)
  /\ NestingStructureLeft
  /\ UNCHANGED <<cohesionVars, lateVars, rule, options, reports, nextId, idents,
                 depthStack, nestingPathSaveStack>>

\* mutant: the depth goes on counting inside a function
enterFunction_KeepDepth(node) ==
  /\ rule = "nesting"
  /\ node.id = nextId + 1
  /\ node.type = "FunctionExpression"
  /\ open' = Append(open, [kind |-> "function", id |-> node.id, iife |-> node.iife])
  /\ nextId' = nextId + 1
  /\ IF isTopLevelIIFE(node) /\ ~createNesting(options).ignoreTopLevelIIFE
     THEN /\ NestingStructureEntered(node)
          /\ UNCHANGED <<depthStack, nestingPathSaveStack>>
     ELSE /\ depthStack' = Append(depthStack, currentDepth)
          /\ nestingPathSaveStack' = Append(nestingPathSaveStack, nestingPathStack)
          /\ currentDepth' = currentDepth
          /\ nestingPathStack' = <<>>
          /\ UNCHANGED reports
  /\ UNCHANGED <<cohesionVars, lateVars, rule, options, idents>>

\* FunctionDeclaration / FunctionExpression / ArrowFunctionExpression:
\* enterFunction
enterFunction(node) ==
  /\ rule = "nesting"
  /\ node.id = nextId + 1
  /\ node.type = "FunctionExpression"
  /\ open' = Append(open, [kind |-> "function", id |-> node.id, iife |-> node.iife])
  /\ nextId' = nextId + 1
  /\ IF isTopLevelIIFE(node) /\ ~createNesting(options).ignoreTopLevelIIFE
     THEN /\ NestingStructureEntered(node)
          /\ UNCHANGED <<depthStack, nestingPathSaveStack>>
     ELSE /\ depthStack' = Append(depthStack, currentDepth)
          /\ nestingPathSaveStack' = Append(nestingPathSaveStack, nestingPathStack)
          /\ currentDepth' = 0
          /\ nestingPathStack' = <<>>
          /\ UNCHANGED reports
  /\ UNCHANGED <<cohesionVars, lateVars, rule, options, idents>>

\* the three function exit handlers: exitFunction, for the innermost open
\* node
exitFunction ==
  /\ rule = "nesting"
  /\ Len(open) > 0
  /\ Last(open).kind = "function"
  /\ open' = Front(open)
  /\ IF isTopLevelIIFE(Last(open)) /\ ~createNesting(options).ignoreTopLevelIIFE
     THEN /\ NestingStructureLeft
          /\ UNCHANGED <<depthStack, nestingPathSaveStack>>
     ELSE IF Len(depthStack) > 0
     THEN /\ currentDepth' = Last(depthStack)
          /\ depthStack' = Front(depthStack)
          /\ nestingPathSaveStack' = Front(nestingPathSaveStack)
          /\ nestingPathStack' = Last(nestingPathSaveStack)
     ELSE UNCHANGED nestingVars
  /\ UNCHANGED <<cohesionVars, lateVars, rule, options, reports, nextId, idents>>

(***************************************************************************)
(* Traversals of the max-nesting-depth listener.                           *)
(***************************************************************************)
\* nodes entered in one traversal
MaxNestingNodes == 4
NestingOptions ==
  { <<>>, [maxDepth |-> 1], [ignoreTopLevelIIFE |-> FALSE],
    [maxDepth |-> 1, ignoreTopLevelIIFE |-> FALSE] }
StructureNodes ==
  [id : 1..MaxNestingNodes, type : {"IfStatement", "WhileStatement"}, iife : {FALSE}]
NestingFunctionNodes ==
  [id : 1..MaxNestingNodes, type : {"FunctionExpression"}, iife : BOOLEAN]

InitDepth ==
  /\ rule = "nesting"
  /\ options \in NestingOptions
  /\ InitCohesion
  /\ InitNesting
  /\ InitLate
  /\ reports = <<>>
  /\ open = <<>>
  /\ nextId = 0
  /\ idents = 0

NextDepth ==
  \/ \E node \in StructureNodes : enterNestingStructure(node)
  \/ exitNestingStructure
  \/ \E node \in NestingFunctionNodes : enterFunction(node)
  \/ exitFunction

SpecDepth == InitDepth /\ [][NextDepth]_vars

(***************************************************************************)
(* no-late-variable-usage: create() and the listener's handlers.           *)
(* variableDeclarations is a Map from names to lines: a function whose      *)
(* domain is the set of keys.                                               *)
(***************************************************************************)
DEFAULT_MAX_LINES == 5

createLate(opts) ==
  [maxLines |-> OrDefault(opts, "maxLinesBetweenDeclarationAndUsage", DEFAULT_MAX_LINES)]

\* Map.prototype.set / delete
LineMapSet(map, key, value) ==
  [k \in DOMAIN map \cup {key} |-> IF k = key THEN value ELSE map[k]]
LineMapDelete(map, keys) == [k \in DOMAIN map \ keys |-> map[k]]

\* the walker's view: the innermost open scope that declares name, 0 if none
ScopeOf(scopeChain, name) ==
  LET S == {k \in DOMAIN scopeChain : name \in DOMAIN scopeChain[k]}
  IN IF S = {} THEN 0 ELSE CHOOSE k \in S : \A j \in S : j <= k

\* BlockStatement
BlockStatement ==
  /\ rule = "late"
  /\ scopes' = Append(scopes, <<>>)
  /\ open' = Append(open, [kind |-> "blockStatement", id |-> nextId + 1])
  /\ nextId' = nextId + 1
  /\ bindings' = Append(bindings, <<>>)
  /\ UNCHANGED <<cohesionVars, nestingVars, rule, options, reports, idents,
                 variableDeclarations, line>>

\* mutant: leaving a block forgets every declaration
BlockStatementExit_DeleteAll ==
  /\ rule = "late"
  /\ Len(open) > 0
  /\ Last(open).kind = "blockStatement"
  /\ open' = Front(open)
  /\ bindings' = Front(bindings)
  /\ IF Len(scopes) = 0
     THEN UNCHANGED <<scopes, variableDeclarations>>
     ELSE /\ scopes' = Front(scopes)
          /\ variableDeclarations' = <<>>
  /\ UNCHANGED <<cohesionVars, nestingVars, rule, options, reports, nextId, idents,
                 line>>

\* 'BlockStatement:exit'
BlockStatementExit ==
  /\ rule = "late"
  /\ Len(open) > 0
  /\ Last(open).kind = "blockStatement"
  /\ open' = Front(open)
  /\ bindings' = Front(bindings)
  /\ IF Len(scopes) = 0
     THEN UNCHANGED <<scopes, variableDeclarations>>
     ELSE LET currentScope == Last(scopes)
          IN /\ scopes' = Front(scopes)
             /\ variableDeclarations' =
                  LineMapDelete(variableDeclarations, Range(currentScope))
  /\ UNCHANGED <<cohesionVars, nestingVars, rule, options, reports, nextId, idents,
                 line>>

\* VariableDeclaration(node), for a declaration with one declarator
\* [id |-> [type, name], line]; a name is declared once in a scope
VariableDeclaration(node) ==
  /\ rule = "late"
  /\ node.line >= line
  /\ line' = node.line
  /\ idents' = idents + 1
  /\ node.id.name \notin DOMAIN Last(bindings)
  /\ IF node.id.type = "Identifier"
     THEN /\ variableDeclarations' =
               LineMapSet(variableDeclarations, node.id.name, node.line)
          /\ scopes' = [scopes EXCEPT ![Len(scopes)] = Append(@, node.id.name)]
          /\ bindings' = [bindings EXCEPT ![Len(bindings)] =
                            LineMapSet(@, node.id.name,
                                       [declared |-> node.line, used |-> 0])]
     ELSE UNCHANGED <<variableDeclarations, scopes, bindings>>
  /\ UNCHANGED <<cohesionVars, nestingVars, rule, options, reports, open, nextId>>

\* the finding of context.report
LateFinding(node, declarationLine, cfg) ==
  [name |-> node.name,
   lines |-> node.line - declarationLine,
   max |-> cfg.maxLines,
   declarationLine |-> declarationLine,
   usageLine |-> node.line]

\* the walker's view after a reference: the first one is remembered
NoteReference(scopeChain, node) ==
  LET k == ScopeOf(scopeChain, node.name)
  IN IF node.role # "other" \/ k = 0 THEN scopeChain
     ELSE IF scopeChain[k][node.name].used # 0 THEN scopeChain
     ELSE [scopeChain EXCEPT ![k][node.name].used = node.line]

\* Identifier(node) of no-late-variable-usage; node is [name, line, role],
\* role the position of the identifier under its parent
LateIdentifier(node) ==
  /\ rule = "late"
  /\ node.line >= line
  /\ line' = node.line
  /\ idents' = idents + 1
  /\ bindings' = NoteReference(bindings, node)
  /\ IF node.role \in {"declaratorId", "functionId", "classId", "propertyKey",
                       "memberProperty"}
     THEN UNCHANGED reports
     ELSE IF node.name \in DOMAIN variableDeclarations
     THEN LET declarationLine == variableDeclarations[node.name]
              linesBetween == node.line - declarationLine
              cfg == createLate(options)
          IN reports' = IF linesBetween > cfg.maxLines
                        THEN Append(reports, LateFinding(node, declarationLine, cfg))
                        ELSE reports
     ELSE UNCHANGED reports
  /\ UNCHANGED <<cohesionVars, nestingVars, rule, options, open, nextId,
                 variableDeclarations, scopes>>

(***************************************************************************)
(* Traversals of the no-late-variable-usage listener: events on            *)
(* non-decreasing lines.                                                    *)
(***************************************************************************)
\* last line of the traversed program
MaxLine == 7
\* declarations and identifiers in one traversal
MaxLateEvents == 3
\* block statements entered in one traversal
MaxLateBlocks == 1
LateNames == {"x", "y"}
LateOptions == { <<>>, [maxLinesBetweenDeclarationAndUsage |-> 2] }
DeclarationNodes ==
  [id : [type : {"Identifier"}, name : LateNames], line : 1..MaxLine]
    \cup [id : {[type |-> "ObjectPattern", name |-> ""]}, line : 1..MaxLine]
IdentifierNodes ==
  [name : LateNames, line : 1..MaxLine, role : {"declaratorId", "other"}]

InitLateUsage ==
  /\ rule = "late"
  /\ options \in LateOptions
  /\ InitCohesion
  /\ InitNesting
  /\ InitLate
  /\ reports = <<>>
  /\ open = <<>>
  /\ nextId = 0
  /\ idents = 0

CanEnterBlock == nextId < MaxLateBlocks
CanDeclare == idents < MaxLateEvents

NextLateUsage ==
  \/ CanEnterBlock /\ BlockStatement
  \/ BlockStatementExit
  \/ CanDeclare /\ \E node \in DeclarationNodes : VariableDeclaration(node)
  \/ CanDeclare /\ \E node \in IdentifierNodes : LateIdentifier(node)

SpecLateUsage == InitLateUsage /\ [][NextLateUsage]_vars

(***************************************************************************)
(* The traversal.                                                          *)
(***************************************************************************)
UnitNodes == [id : 1..MaxNodes, loc : UnitLocs]
MethodNodes ==
  [id : 1..MaxNodes, kind : {"method"}, key : MethodKeys]
    \cup [id : 1..MaxNodes, kind : {"constructor"}, key : {IdentifierKey("constructor")}]

Init ==
  /\ InitNesting
  /\ InitLate
  /\ rule \in {"function", "class"}
  /\ options \in IF rule = "function" THEN FunctionOptions ELSE ClassOptions
  /\ functionStack = <<>>
  /\ blockStack = <<>>
  /\ classStack = <<>>
  /\ currentMethod = 0
  /\ reports = <<>>
  /\ lastAnalysis = <<>>
  /\ open = <<>>
  /\ nextId = 0
  /\ idents = 0

\* the walker explores traversals of at most MaxNodes nodes, nested at most
\* MaxDepth deep, with at most MaxIdents identifier / member events
CanEnter == nextId < MaxNodes /\ Len(open) < MaxDepth
CanRefer == idents < MaxIdents

Next ==
  \/ CanEnter /\ FunctionDeclaration
  \/ \E node \in UnitNodes : FunctionDeclarationExit(node)
  \/ CanEnter /\ IfStatement
  \/ \E blockType \in BlockTypes :
       /\ Len(open) > 0
       /\ blockType = BlockTypeOf(Last(open).id)
       /\ IfStatementExit(blockType)
  \/ CanRefer /\ \E name \in Vars, role \in IdentifierRoles : Identifier(name, role)
  \/ CanEnter /\ ClassDeclaration
  \/ \E node \in UnitNodes : ClassDeclarationExit(node)
  \/ CanEnter /\ \E node \in MethodNodes : MethodDefinition(node)
  \/ MethodDefinitionExit
  \/ CanRefer /\ \E node \in MemberNodes : MemberExpression(node)

Spec == Init /\ [][Next]_vars

(***************************************************************************)
(* Analysis of one unit: the state in which a unit is about to be left,    *)
(* with its blocks (methods) drawn from bounded sets, and the exit handler *)
(* as the only step.                                                       *)
(***************************************************************************)
SeqsUpTo(S, n) == UNION {[1..k -> S] : k \in 0..n}

\* the usage of a control structure over the names S: S's smallest name is
\* written, the others are read
UsageOver(S) ==
  LET m == CHOOSE x \in S : \A y \in S : x <= y
  IN [reads |-> S \ {m}, writes |-> {m}]

\* control structures over 10, 29 and 50 names, each containing the smaller ones
LargeUsages == {UsageOver(1..10), UsageOver(1..29), UsageOver(1..50)}
InputUsages == {UsageOver(S) : S \in (SUBSET (1..MaxInputVar)) \ {{}}} \cup LargeUsages

AnalyzeFunctionOptions ==
  { <<>>,
    [minSharedVariablePercentage |-> 0, minFunctionLength |-> 0],
    [minSharedVariablePercentage |-> 58, minFunctionLength |-> 9] }

BlocksOf(usages) ==
  [k \in DOMAIN usages |-> [node |-> k + 1, variables |-> usages[k], blockType |-> "if"]]

RECURSIVE CountUses(_, _)
CountUses(usages, k) ==
  IF k > Len(usages) THEN 0
  ELSE Cardinality(usages[k].reads) + Cardinality(usages[k].writes)
         + CountUses(usages, k + 1)

FunctionAtExit(usages) ==
  /\ functionStack = <<[node |-> 1, blocks |-> BlocksOf(usages),
                        variables |-> UNION {usages[k].reads \cup usages[k].writes :
                                               k \in DOMAIN usages}]>>
  /\ blockStack = <<EmptyUsage>>
  /\ classStack = <<>>
  /\ currentMethod = 0
  /\ open = <<[kind |-> "function", id |-> 1]>>
  /\ nextId = 1 + Len(usages)
  /\ idents = CountUses(usages, 1)

MethodNameSeq == <<"m1", "m2", "m3", "m4", "m5">>
InputMembers == {"x", "y", "m1"}

MethodsOf(used) ==
  [k \in DOMAIN used |->
     [name |-> MethodNameSeq[k], node |-> k + 1, usedMembers |-> used[k]]]

RECURSIVE CountMembers(_, _)
CountMembers(used, k) ==
  IF k > Len(used) THEN 0 ELSE Cardinality(used[k]) + CountMembers(used, k + 1)

ClassAtExit(used) ==
  /\ classStack = <<[node |-> 1, methods |-> MethodsOf(used)]>>
  /\ currentMethod = 0
  /\ functionStack = <<>>
  /\ blockStack = <<>>
  /\ open = <<[kind |-> "class", id |-> 1]>>
  /\ nextId = 1 + Len(used)
  /\ idents = CountMembers(used, 1)

InitAnalyze ==
  /\ InitNesting
  /\ InitLate
  /\ rule \in {"function", "class"}
  /\ options \in IF rule = "function" THEN AnalyzeFunctionOptions ELSE ClassOptions
  /\ reports = <<>>
  /\ lastAnalysis = <<>>
  /\ IF rule = "function"
     THEN \E usages \in SeqsUpTo(InputUsages, MaxInputBlocks) : FunctionAtExit(usages)
     ELSE \E used \in SeqsUpTo(SUBSET InputMembers, MaxInputBlocks) : ClassAtExit(used)

NextAnalyze ==
  \/ \E node \in UnitNodes : FunctionDeclarationExit(node)
  \/ \E node \in UnitNodes : ClassDeclarationExit(node)

SpecAnalyze == InitAnalyze /\ [][NextAnalyze]_vars

(***************************************************************************)
(* calculateOverlapPercentage and the analysis over every CodeBlock,       *)
(* including blocks whose variable sets are empty.                         *)
(***************************************************************************)
VacuousUsages ==
  {[reads |-> R, writes |-> W] : R \in SUBSET (1..MaxVar), W \in SUBSET {1}}
VacuousOptions ==
  { <<>>, [minSharedVariablePercentage |-> 100, minFunctionLength |-> 9] }

InitVacuous ==
  /\ InitNesting
  /\ InitLate
  /\ rule = "function"
  /\ options \in VacuousOptions
  /\ reports = <<>>
  /\ lastAnalysis = <<>>
  /\ \E usages \in SeqsUpTo(VacuousUsages, MaxInputBlocks) : FunctionAtExit(usages)

NextVacuous == \E node \in UnitNodes : FunctionDeclarationExit(node)

SpecVacuous == InitVacuous /\ [][NextVacuous]_vars

\* units whose control structures each read at most one name and write at
\* most one name, in every combination of reading and writing
UnionUsages ==
  {[reads |-> R, writes |-> W] : R, W \in {S \in SUBSET Vars : Cardinality(S) <= 1}}

InitUnion ==
  /\ InitNesting
  /\ InitLate
  /\ rule = "function"
  /\ options \in VacuousOptions
  /\ reports = <<>>
  /\ lastAnalysis = <<>>
  /\ \E usages \in SeqsUpTo(UnionUsages, MaxInputBlocks) : FunctionAtExit(usages)

NextUnion == \E node \in UnitNodes : FunctionDeclarationExit(node)

SpecUnion == InitUnion /\ [][NextUnion]_vars

(***************************************************************************)
(* Analysis of named functions: the unit being left carries its name.       *)
(***************************************************************************)
FunctionNames == {"f", "customThresholdFunction", "processDifferentSets"}
NamedUnitNodes == [id : 1..MaxNodes, loc : UnitLocs, name : FunctionNames]
NamedUsages == {UsageOver(S) : S \in (SUBSET (1..MaxInputVar)) \ {{}}}

InitNamed ==
  /\ InitNesting
  /\ InitLate
  /\ rule = "function"
  /\ options \in FunctionOptions
  /\ reports = <<>>
  /\ lastAnalysis = <<>>
  /\ \E usages \in SeqsUpTo(NamedUsages, MaxInputBlocks) : FunctionAtExit(usages)

NextNamed == \E node \in NamedUnitNodes : FunctionDeclarationExit(node)

SpecNamed == InitNamed /\ [][NextNamed]_vars

(***************************************************************************)
(* Option values: the analysis of a unit under options that are absent, 0   *)
(* or positive.                                                             *)
(***************************************************************************)
OptionValues(key, values) == {<<>>} \cup {[k \in {key} |-> v] : v \in values}
\* the union of two option objects with different keys
Merge(a, b) ==
  [k \in DOMAIN a \cup DOMAIN b |-> IF k \in DOMAIN a THEN a[k] ELSE b[k]]
ZeroFunctionOptions ==
  {Merge(a, b) : a \in OptionValues("minSharedVariablePercentage", {0, 30, 58}),
                 b \in OptionValues("minFunctionLength", {0, 9, 10})}
ZeroClassOptions == OptionValues("minClassLength", {0, 9, 10, 11})

InitOptions ==
  /\ InitNesting
  /\ InitLate
  /\ rule \in {"function", "class"}
  /\ options \in IF rule = "function" THEN ZeroFunctionOptions ELSE ZeroClassOptions
  /\ reports = <<>>
  /\ lastAnalysis = <<>>
  /\ IF rule = "function"
     THEN \E usages \in SeqsUpTo(NamedUsages, MaxInputBlocks) : FunctionAtExit(usages)
     ELSE \E used \in SeqsUpTo(SUBSET {"x", "m1"}, MaxInputBlocks) : ClassAtExit(used)

NextOptions ==
  \/ \E node \in UnitNodes : FunctionDeclarationExit(node)
  \/ \E node \in UnitNodes : ClassDeclarationExit(node)

SpecOptions == InitOptions /\ [][NextOptions]_vars

(***************************************************************************)
(* Malformed traversals: the traversals of Spec, over fewer inputs, with    *)
(* exit events for nodes that were never entered.  Such a node is numbered  *)
(* like an entered one but never becomes open.                              *)
(***************************************************************************)
CanStray == nextId < MaxNodes

NextStray ==
  \/ CanEnter /\ FunctionDeclaration
  \/ \E node \in UnitNodes : FunctionDeclarationExit(node)
  \/ CanEnter /\ IfStatement
  \/ IfStatementExit("if")
  \/ CanRefer /\ \E name \in Vars : Identifier(name, "other")
  \/ CanStray /\ \E node \in UnitNodes : StrayFunctionDeclarationExit(node)
  \/ CanStray /\ StrayIfStatementExit("if")
  \/ CanEnter /\ ClassDeclaration
  \/ \E node \in UnitNodes : ClassDeclarationExit(node)
  \/ CanStray /\ \E node \in UnitNodes : StrayClassDeclarationExit(node)

SpecStray == Init /\ [][NextStray]_vars

(***************************************************************************)
(* The usage classifier: function traversals in which an identifier's name *)
(* tells the position it occurs in.  "propertyKey" is the non-computed key  *)
(* of an object property ({ key: value }): its parent is a Property node,   *)
(* none of the parents the Identifier handler tests for.                    *)
(***************************************************************************)
ClassifyEvents ==
  { [name |-> "skipped", role |-> "memberProperty"],
    [name |-> "skipped", role |-> "propertyKey"],
    [name |-> "written", role |-> "declaratorId"],
    [name |-> "written", role |-> "assignmentLeft"],
    [name |-> "written", role |-> "param"],
    [name |-> "read", role |-> "other"] }

InitClassify ==
  /\ InitNesting
  /\ InitLate
  /\ rule = "function"
  /\ options \in FunctionOptions
  /\ functionStack = <<>>
  /\ blockStack = <<>>
  /\ classStack = <<>>
  /\ currentMethod = 0
  /\ reports = <<>>
  /\ lastAnalysis = <<>>
  /\ open = <<>>
  /\ nextId = 0
  /\ idents = 0

NextClassify ==
  \/ CanEnter /\ FunctionDeclaration
  \/ \E node \in UnitNodes : FunctionDeclarationExit(node)
  \/ CanEnter /\ IfStatement
  \/ IfStatementExit("if")
  \/ CanRefer /\ \E ev \in ClassifyEvents : Identifier(ev.name, ev.role)

SpecClassify == InitClassify /\ [][NextClassify]_vars

(***************************************************************************)
(* The traversal of one program: the events the walker produces for the    *)
(* function customThresholdFunction of the rule's tests, in the order of    *)
(* ESLint's visitor keys.  The position in the script is the number of      *)
(* events so far: nodes entered, nodes left and identifiers met.            *)
(***************************************************************************)
EnterFunction == [op |-> "enterFunction"]
ExitFunction(first, last) ==
  [op |-> "exitFunction", loc |-> [start |-> first, end |-> last]]
EnterBlock == [op |-> "enterBlock"]
ExitBlock(blockType) == [op |-> "exitBlock", type |-> blockType]
Ident(name, role) == [op |-> "ident", name |-> name, role |-> role]

customThresholdFunction ==
  << EnterFunction,                              \* function customThresholdFunction() {
     Ident("customThresholdFunction", "other"),
     Ident("data", "declaratorId"),              \*   const data = [];
     Ident("operations", "declaratorId"),        \*   const operations = [];
     EnterBlock,                                 \*   if (data.length > 0) {
     Ident("data", "other"),
     Ident("length", "memberProperty"),
     Ident("data", "other"),                     \*     data.forEach(item => {
     Ident("forEach", "memberProperty"),
     EnterFunction,
     Ident("item", "param"),
     Ident("console", "other"),                  \*       console.log(item);
     Ident("log", "memberProperty"),
     Ident("item", "other"),
     ExitFunction(6, 8),                         \*     });
     ExitBlock("if"),                            \*   }
     EnterBlock,                                 \*   for (let i = 0; i < 10; i++) {
     Ident("i", "declaratorId"),
     Ident("i", "other"),
     Ident("i", "other"),
     Ident("operations", "other"),               \*     operations.push(() => i * 2);
     Ident("push", "memberProperty"),
     EnterFunction,
     Ident("i", "other"),
     ExitFunction(12, 12),
     ExitBlock("for"),                           \*   }
     EnterBlock,                                 \*   try {
     Ident("operations", "other"),               \*     operations.forEach(op => op());
     Ident("forEach", "memberProperty"),
     EnterFunction,
     Ident("op", "param"),
     Ident("op", "other"),
     ExitFunction(16, 16),
     Ident("e", "other"),                        \*   } catch (e) {
     Ident("console", "other"),                  \*     console.error("Error in operations");
     Ident("error", "memberProperty"),
     ExitBlock("try"),                           \*   }
     ExitFunction(1, 20) >>                      \* }

\* options: [{ minSharedVariablePercentage: 10 }] in the test
customThresholdOptions == [minSharedVariablePercentage |-> 10]
ShapeOptions ==
  { customThresholdOptions, <<>>,
    [minSharedVariablePercentage |-> 25], [minSharedVariablePercentage |-> 26] }

ScriptPosition == 2 * nextId - Len(open) + idents + 1

InitShape ==
  /\ InitNesting
  /\ InitLate
  /\ rule = "function"
  /\ options \in ShapeOptions
  /\ functionStack = <<>>
  /\ blockStack = <<>>
  /\ classStack = <<>>
  /\ currentMethod = 0
  /\ reports = <<>>
  /\ lastAnalysis = <<>>
  /\ open = <<>>
  /\ nextId = 0
  /\ idents = 0

\* the walker calls the handler of the script's next event
RunScript(script) ==
  /\ ScriptPosition <= Len(script)
  /\ LET event == script[ScriptPosition]
     IN \/ event.op = "enterFunction" /\ FunctionDeclaration
        \/ /\ event.op = "exitFunction"
           /\ Len(open) > 0
           /\ FunctionDeclarationExit([id |-> Last(open).id, loc |-> event.loc])
        \/ event.op = "enterBlock" /\ IfStatement
        \/ event.op = "exitBlock" /\ IfStatementExit(event.type)
        \/ event.op = "ident" /\ Identifier(event.name, event.role)

NextShape == RunScript(customThresholdFunction)

SpecShape == InitShape /\ [][NextShape]_vars

(***************************************************************************)
(* The traversal of the documented example processEverything: 17 lines,    *)
(* three groups of straight-line statements over users, products and        *)
(* orders, each with a filter callback, and no control structure.           *)
(***************************************************************************)
\* const <source> = data.<source>;
\* const <selected> = <source>.filter(<item> => <item>.<field> ...);
\* console.log(`...: ${<selected>.length}`);
StatementGroup(source, selected, item, field, at) ==
  << Ident(source, "declaratorId"),
     Ident("data", "other"),
     Ident(source, "memberProperty"),
     Ident(selected, "declaratorId"),
     Ident(source, "other"),
     Ident("filter", "memberProperty"),
     EnterFunction,
     Ident(item, "param"),
     Ident(item, "other"),
     Ident(field, "memberProperty"),
     ExitFunction(at, at),
     Ident("console", "other"),
     Ident("log", "memberProperty"),
     Ident(selected, "other"),
     Ident("length", "memberProperty") >>

processEverything ==
  << EnterFunction,                        \* function processEverything(data) {
     Ident("processEverything", "other"),
     Ident("data", "param") >>
  \o StatementGroup("users", "activeUsers", "user", "active", 4)
  \o StatementGroup("products", "expensiveProducts", "product", "price", 9)
  \o StatementGroup("orders", "pendingOrders", "order", "status", 14)
  \o << ExitFunction(1, 17) >>             \* }

StraightOptions ==
  { <<>>, [minFunctionLength |-> 17],
    [minSharedVariablePercentage |-> 100, minFunctionLength |-> 5] }

InitStraight ==
  /\ InitNesting
  /\ InitLate
  /\ rule = "function"
  /\ options \in StraightOptions
  /\ functionStack = <<>>
  /\ blockStack = <<>>
  /\ classStack = <<>>
  /\ currentMethod = 0
  /\ reports = <<>>
  /\ lastAnalysis = <<>>
  /\ open = <<>>
  /\ nextId = 0
  /\ idents = 0

NextStraight == RunScript(processEverything)

SpecStraight == InitStraight /\ [][NextStraight]_vars

(***************************************************************************)
(* Classes nested in methods: traversals of the class rule one node longer *)
(* and one level deeper than those of Spec, over one member name and        *)
(* methods with Identifier keys.                                            *)
(***************************************************************************)
MaxNestedNodes == MaxNodes + 1
MaxNestedDepth == MaxDepth + 1
NestedMember == [object |-> "ThisExpression", property |-> IdentifierKey("x")]
NestedUnitNodes == [id : 1..MaxNestedNodes, loc : UnitLocs]
NestedMethodNodes ==
  [id : 1..MaxNestedNodes, kind : {"method"},
   key : {IdentifierKey("m1"), IdentifierKey("m2")}]
CanEnterNested == nextId < MaxNestedNodes /\ Len(open) < MaxNestedDepth

InitNested ==
  /\ InitNesting
  /\ InitLate
  /\ rule = "class"
  /\ options \in ClassOptions
  /\ functionStack = <<>>
  /\ blockStack = <<>>
  /\ classStack = <<>>
  /\ currentMethod = 0
  /\ reports = <<>>
  /\ lastAnalysis = <<>>
  /\ open = <<>>
  /\ nextId = 0
  /\ idents = 0

NextNested ==
  \/ CanEnterNested /\ ClassDeclaration
  \/ \E node \in NestedUnitNodes : ClassDeclarationExit(node)
  \/ CanEnterNested /\ \E node \in NestedMethodNodes : MethodDefinition(node)
  \/ MethodDefinitionExit
  \/ CanRefer /\ MemberExpression(NestedMember)

SpecNested == InitNested /\ [][NextNested]_vars

(***************************************************************************)
(* Properties.  The graph notions below are stated on their own terms:     *)
(* reachability is a fixpoint over a set of ordered pairs, not the         *)
(* breadth-first search of the analysis.                                   *)
(***************************************************************************)
RECURSIVE Reach(_, _)
Reach(S, E) ==
  LET T == S \cup {e[2] : e \in {d \in E : d[1] \in S}}
  IN IF T = S THEN S ELSE Reach(T, E)

RECURSIVE Concat(_, _)
Concat(seqs, k) == IF k > Len(seqs) THEN <<>> ELSE seqs[k] \o Concat(seqs, k + 1)

Analysed == lastAnalysis # <<>>
LastUnit == lastAnalysis[1].unit
LastResult == lastAnalysis[1].result
Span(unit) == unit.node.loc.end - unit.node.loc.start + 1
ReportedNodes == {reports[k].node : k \in DOMAIN reports}

FnAnalysed == rule = "function" /\ Analysed
FnThreshold == create(options).minSharedVariablePercentage
FnGated ==
  /\ FnAnalysed
  /\ Span(LastUnit) >= create(options).minFunctionLength
  /\ Len(LastUnit.blocks) >= 2
FnN == Len(LastUnit.blocks)
FnVars(i) == allVars(LastUnit.blocks[i])
\* the adjacency lists the analysis built, as a set of ordered pairs
FnBuiltEdges ==
  {e \in (1..FnN) \X (1..FnN) : e[2] \in Range(LastResult.edges[e[1]])}
FnGroupSets == {Range(LastResult.groups[g].blockIndices) : g \in DOMAIN LastResult.groups}

ClassAnalysed == rule = "class" /\ Analysed
ClassGated ==
  /\ ClassAnalysed
  /\ Span(LastUnit) >= createClass(options).minClassLength
  /\ Len(LastUnit.methods) >= 2
ClassNames == Range(MapKeys(LastUnit.methods))
ClassUsed(n) == MapGet(LastUnit.methods, n).usedMembers
ClassBuiltEdges ==
  {e \in ClassNames \X ClassNames : e[2] \in Range(LastResult.edges[e[1]])}

\* C1: for a function unit that passes the gates, blocks i and j have an edge
\* exactly when 100*|Vi \cap Vj| >= minSharedVariablePercentage*|Vi \cup Vj|,
\* the edge relation is symmetric, two blocks are in the same group iff a path
\* of edges joins them, and componentCount is the number of components.
C1_JaccardEdges ==
  {e \in (1..FnN) \X (1..FnN) :
     /\ e[1] # e[2]
     /\ 100 * Cardinality(FnVars(e[1]) \cap FnVars(e[2]))
          >= FnThreshold * Cardinality(FnVars(e[1]) \cup FnVars(e[2]))}
C1_EdgesAndComponents ==
  FnGated =>
    /\ FnBuiltEdges = C1_JaccardEdges
    /\ \A e \in FnBuiltEdges : <<e[2], e[1]>> \in FnBuiltEdges
    /\ \A i, j \in 1..FnN :
         (\E G \in FnGroupSets : i \in G /\ j \in G) <=> j \in Reach({i}, C1_JaccardEdges)
    /\ LastResult.componentCount
         = Cardinality({Reach({i}, C1_JaccardEdges) : i \in 1..FnN})

\* C2: for a function or class unit that passes the gates with N blocks, the
\* returned groups partition the block indices (method names): every block is
\* in exactly one group and no group is empty.
C2_FnAllIndices == Concat([g \in DOMAIN LastResult.groups |->
                             LastResult.groups[g].blockIndices], 1)
C2_ClassAllNames == Concat([g \in DOMAIN LastResult.components |->
                              LastResult.components[g].methods], 1)
C2_Partition ==
  /\ FnGated =>
       /\ Len(C2_FnAllIndices) = FnN
       /\ Range(C2_FnAllIndices) = 1..FnN
       /\ \A g \in DOMAIN LastResult.groups : Len(LastResult.groups[g].blockIndices) > 0
  /\ ClassGated =>
       /\ Len(C2_ClassAllNames) = Len(LastUnit.methods)
       /\ Range(C2_ClassAllNames) = ClassNames
       /\ \A g \in DOMAIN LastResult.components :
            Len(LastResult.components[g].methods) > 0
C2_Witness ==
  /\ FnGated
  /\ FnN = 3
  /\ LastResult.componentCount = 2

\* C3: every emitted finding carries componentCount >= 2, and a unit that
\* passes the gates and whose graph is connected emits no finding.
C3_FindingOnlyIfDisconnected ==
  /\ \A k \in DOMAIN reports : reports[k].componentCount >= 2
  /\ (FnGated /\ Reach({1}, FnBuiltEdges) = 1..FnN)
       => LastUnit.node.id \notin ReportedNodes
  /\ (ClassGated /\ \E n \in ClassNames : Reach({n}, ClassBuiltEdges) = ClassNames)
       => LastUnit.node.id \notin ReportedNodes
C3_Witness ==
  /\ FnGated
  /\ Reach({1}, FnBuiltEdges) = 1..FnN
  /\ FnVars(1) # FnVars(2)
  /\ reports = <<>>

\* C4: a unit whose span is below the minimum length, or that owns fewer than
\* two blocks, never produces a finding; a unit whose span equals the minimum
\* exactly (and owns two blocks) is analysed.
C4_MinLength ==
  IF rule = "function" THEN create(options).minFunctionLength
  ELSE createClass(options).minClassLength
C4_BlockCount ==
  IF rule = "function" THEN Len(LastUnit.blocks) ELSE Len(LastUnit.methods)
C4_SizeGating ==
  Analysed =>
    /\ (Span(LastUnit) < C4_MinLength \/ C4_BlockCount < 2)
         => /\ LastUnit.node.id \notin ReportedNodes
            /\ ~LastResult.isLowCohesion
    /\ (Span(LastUnit) = C4_MinLength /\ C4_BlockCount >= 2)
         => LastResult.componentCount >= 1
C4_Witness ==
  /\ FnAnalysed
  /\ Span(LastUnit) < C4_MinLength
  /\ FnN = 2
  /\ FnVars(1) \cap FnVars(2) = {}
  /\ reports = <<>>

\* C5: three blocks (methods) A, B, C with edges A-B and B-C, where A and C
\* share nothing, form one component and no finding is emitted.
C5_FnChain(a, b, c) ==
  /\ <<a, b>> \in FnBuiltEdges
  /\ <<b, c>> \in FnBuiltEdges
  /\ FnVars(a) \cap FnVars(c) = {}
C5_ClassChain(a, b, c) ==
  /\ <<a, b>> \in ClassBuiltEdges
  /\ <<b, c>> \in ClassBuiltEdges
  /\ ClassUsed(a) \cap ClassUsed(c) = {}
C5_ChainCohesion ==
  /\ (FnGated /\ FnN = 3
        /\ \E a, b, c \in 1..3 : {a, b, c} = 1..3 /\ C5_FnChain(a, b, c))
       => LastResult.componentCount = 1 /\ reports = <<>>
  /\ (ClassGated /\ Len(LastUnit.methods) = 3
        /\ \E a, b, c \in ClassNames : {a, b, c} = ClassNames /\ C5_ClassChain(a, b, c))
       => LastResult.componentCount = 1 /\ reports = <<>>
C5_Witness ==
  /\ FnGated
  /\ FnN = 3
  /\ C5_FnChain(1, 2, 3)
  /\ <<1, 3>> \notin FnBuiltEdges
  /\ LastResult.componentCount = 1

\* C6: for a fixed function unit and configured option values t1 <= t2 of
\* minSharedVariablePercentage, componentCount under t2 is at least
\* componentCount under t1.
C6_Percentages == {0, 10, 30, 50, 100}
C6_CountAt(t) ==
  analyzeFunctionCohesion(LastUnit,
      create([minSharedVariablePercentage |-> t,
              minFunctionLength |-> create(options).minFunctionLength])).componentCount
C6_MonotonicThreshold ==
  FnAnalysed =>
    \A t1, t2 \in C6_Percentages : t1 <= t2 => C6_CountAt(t1) <= C6_CountAt(t2)

\* C7: calculateOverlapPercentage is exactly 100 whenever either block's
\* reads \cup writes is empty, so at a threshold up to 100 such a block has an
\* edge to every other block and is never a component of its own.
C7_EmptyBlocks == {i \in 1..FnN : FnVars(i) = {}}
C7_VacuousCohesion ==
  FnAnalysed =>
    /\ \A i, j \in 1..FnN :
         (i # j /\ (i \in C7_EmptyBlocks \/ j \in C7_EmptyBlocks)) =>
            LET score == calculateOverlapPercentage(LastUnit.blocks[i],
                                                    LastUnit.blocks[j])
            IN score.num = 100 * score.den /\ ~score.short
    /\ (FnGated /\ FnThreshold <= 100) =>
         \A i \in C7_EmptyBlocks :
            /\ \A j \in (1..FnN) \ {i} : <<i, j>> \in FnBuiltEdges
            /\ \A G \in FnGroupSets : i \in G => Cardinality(G) >= 2
C7_Witness ==
  /\ FnGated
  /\ C7_EmptyBlocks # {}
  /\ \E j \in 1..FnN : FnVars(j) # {}
  /\ LastResult.componentCount = 1

\* C8: every block stored in a function unit's blocks list has a non-empty
\* reads \cup writes set; a control structure that exits with an empty
\* accumulator is popped and records no block.
C8_NoEmptyBlock ==
  /\ \A f \in DOMAIN functionStack :
       \A b \in DOMAIN functionStack[f].blocks : allVars(functionStack[f].blocks[b]) # {}
  /\ FnAnalysed => \A b \in 1..FnN : FnVars(b) # {}
\* the function (node 1) is open, its only child (node 2) was a control
\* structure that has been left without any identifier in it
C8_Witness ==
  /\ rule = "function"
  /\ nextId = 2
  /\ idents = 0
  /\ lastAnalysis = <<>>
  /\ Len(open) = 1 /\ open[1].kind = "function" /\ open[1].id = 1
  /\ Len(functionStack) = 1 /\ functionStack[1].blocks = <<>>
  /\ Len(blockStack) = 1

\* C9: a method with empty usedMembers never causes a disconnection on its
\* own: the class with it has no more components than the class without it,
\* and is reported only if the class without it is.
C9_Without(k) ==
  [LastUnit EXCEPT !.methods =
     SubSeq(LastUnit.methods, 1, k - 1)
       \o SubSeq(LastUnit.methods, k + 1, Len(LastUnit.methods))]
C9_EmptyMethodHarmless ==
  ClassAnalysed =>
    \A k \in DOMAIN LastUnit.methods :
       LastUnit.methods[k].usedMembers = {} =>
         LET with == analyzeClassCohesion(LastUnit, createClass(options))
             without == analyzeClassCohesion(C9_Without(k), createClass(options))
         IN /\ with.componentCount <= without.componentCount
            /\ with.isLowCohesion => without.isLowCohesion

\* C10: two methods neither of which references the other's name have an edge
\* iff the Jaccard overlap of their usedMembers, as a percentage, is at least
\* minSharedPropertyPercentage (default 40).
DEFAULT_MIN_SHARED_PROPERTY == 40
C10_ThresholdEdge ==
  ClassGated =>
    \A m1, m2 \in ClassNames :
       (/\ m1 # m2
        /\ ClassUsed(m1) # {} /\ ClassUsed(m2) # {}
        /\ m1 \notin ClassUsed(m2) /\ m2 \notin ClassUsed(m1)) =>
          (<<m1, m2>> \in ClassBuiltEdges
             <=> 100 * Cardinality(ClassUsed(m1) \cap ClassUsed(m2))
                   >= DEFAULT_MIN_SHARED_PROPERTY
                        * Cardinality(ClassUsed(m1) \cup ClassUsed(m2)))

\* C11: in a class that passes the gates, if the usedMembers of one method
\* contains the name of another, the two methods have an edge and are in the
\* same component, whether or not they share a field.
C11_Calls(a, b) == a # b /\ (b \in ClassUsed(a) \/ a \in ClassUsed(b))
C11_SameComponent(a, b) ==
  \E g \in DOMAIN LastResult.components :
     {a, b} \subseteq Range(LastResult.components[g].methods)
C11_CallEdge ==
  ClassGated =>
    \A a, b \in ClassNames :
       C11_Calls(a, b) => <<a, b>> \in ClassBuiltEdges /\ C11_SameComponent(a, b)
\* m2 calls this.m1() and the two methods share no member
C11_Witness ==
  /\ ClassGated
  /\ ClassNames = {"m1", "m2"}
  /\ "m1" \in ClassUsed("m2")
  /\ ClassUsed("m1") # {}
  /\ ClassUsed("m1") \cap ClassUsed("m2") = {}
  /\ LastResult.componentCount = 1
  /\ reports = <<>>

\* C12: the graph of a class has one node per non-constructor MethodDefinition
\* visited in it and none for a constructor, whatever the key names: entering
\* a method either leaves the class's methods alone (a constructor) or adds
\* one node with empty usedMembers and keeps every node already there.
C12_EntersMethod ==
  /\ rule = "class"
  /\ Len(open') = Len(open) + 1
  /\ Last(open').kind = "method"
  /\ Len(classStack) > 0
C12_OneNodePerMethod ==
  [][C12_EntersMethod =>
       \/ classStack' = classStack
       \/ /\ Len(classStack') = Len(classStack)
          /\ Front(classStack') = Front(classStack)
          /\ Front(Last(classStack').methods) = Last(classStack).methods
          /\ Last(Last(classStack').methods).node = Last(open').id
          /\ Last(Last(classStack').methods).usedMembers = {}]_vars

\* The open nodes that own an accumulator frame: the outermost open function
\* and every function or control structure entered inside it.
RECURSIVE FramedFrom(_, _)
FramedFrom(nodes, k) ==
  IF k > Len(nodes) THEN <<>>
  ELSE IF nodes[k].kind = "function" THEN SubSeq(nodes, k, Len(nodes))
  ELSE FramedFrom(nodes, k + 1)
FramedOpen == FramedFrom(open, 1)
IsFunctionNode(n) == n.kind = "function"
OpenFunctions == SelectSeq(open, IsFunctionNode)
EntersNode == Len(open') = Len(open) + 1
LeavesNode == Len(open') = Len(open) - 1
RefersTo == idents' = idents + 1
BlocksOfFrame(stack, k) == stack[k].blocks

\* C13: in a well-nested traversal of functions, frame k of the block stack
\* is the accumulator of the k-th open node from the outermost open function
\* on, and functionStack holds the open functions in order, so the top frame
\* is that of the innermost open control structure of the innermost open
\* function (or that function's top level).  An identifier event changes at
\* most the top frame and no block; a control structure's exit appends at
\* most one block, made of the top frame, to the innermost open function;
\* no other step changes the blocks of a function that stays open.
C13_Frames ==
  rule = "function" =>
    /\ Len(blockStack) = Len(FramedOpen)
    /\ Len(functionStack) = Len(OpenFunctions)
    /\ \A k \in DOMAIN functionStack : functionStack[k].node = OpenFunctions[k].id
C13_KeepsBlocks(n) ==
  \A k \in 1..n : BlocksOfFrame(functionStack', k) = BlocksOfFrame(functionStack, k)
C13_Step ==
  rule = "function" =>
    /\ RefersTo =>
         /\ Len(blockStack') = Len(blockStack)
         /\ Len(blockStack) > 0 => Front(blockStack') = Front(blockStack)
         /\ Len(functionStack') = Len(functionStack)
         /\ C13_KeepsBlocks(Len(functionStack))
    /\ EntersNode =>
         /\ Len(functionStack') >= Len(functionStack)
         /\ C13_KeepsBlocks(Len(functionStack))
    /\ (LeavesNode /\ Last(open).kind = "function") =>
         /\ Len(functionStack') = Len(functionStack) - 1
         /\ C13_KeepsBlocks(Len(functionStack'))
    /\ (LeavesNode /\ Last(open).kind = "block") =>
         /\ Len(functionStack') = Len(functionStack)
         /\ C13_KeepsBlocks(Len(functionStack) - 1)
         /\ Len(functionStack) > 0 =>
              LET before == Last(functionStack).blocks
                  after == Last(functionStack').blocks
              IN \/ after = before
                 \/ /\ Front(after) = before
                    /\ Last(after).node = Last(open).id
                    /\ Last(after).variables = Last(blockStack)
C13_Attribution == [](C13_Frames) /\ [][C13_Step]_vars
\* a function nested in a control structure of another function, both the
\* control structure and the inner function having recorded an identifier
C13_Witness ==
  /\ rule = "function"
  /\ Len(open) = 3
  /\ open[1].kind = "function" /\ open[2].kind = "block" /\ open[3].kind = "function"
  /\ blockStack[2] # EmptyUsage
  /\ blockStack[3] # EmptyUsage

\* the MethodInfo made for method node id, wherever the class stack holds it
AllInfos(stack) == UNION {Range(stack[c].methods) : c \in DOMAIN stack}
InfosOf(stack, id) == {info \in AllInfos(stack) : info.node = id}

\* C14: a this.x access made while the innermost open node is a method (so
\* inside that method and outside any class nested in it) is in that
\* method's usedMembers afterwards, also when a nested class with methods of
\* its own has been visited before it, and no other method's usedMembers
\* change.
C14_Step ==
  (rule = "class" /\ RefersTo /\ Len(open) > 0 /\ Last(open).kind = "method") =>
     /\ \E info \in InfosOf(classStack', Last(open).id) :
          NestedMember.property.name \in info.usedMembers
     /\ \A info \in AllInfos(classStack) :
          info.node # Last(open).id => info \in AllInfos(classStack')
C14_MethodAttribution == [][C14_Step]_vars

\* C15: the blocks of a function unit are in the order in which their control
\* structures were entered (the walker numbers nodes in entering order), so
\* the graph index of a block grows with that order, for a structure that
\* follows another as for one nested inside another.
C15_InEnterOrder(blocks) ==
  \A i, j \in DOMAIN blocks : i < j => blocks[i].node < blocks[j].node
C15_SourceOrder ==
  rule = "function" =>
    /\ \A f \in DOMAIN functionStack : C15_InEnterOrder(functionStack[f].blocks)
    /\ Analysed => C15_InEnterOrder(LastUnit.blocks)

\* C16: identifiers referenced at a function's top level go to the function's
\* top-level frame and change no block; that frame is dropped when the
\* function is left and is never the frame a control structure's exit
\* records, and the analysis is computed from the recorded blocks and the
\* span alone, so top-level references change neither componentCount nor
\* the verdict.
C16_TopFrameIndex ==
  CHOOSE k \in DOMAIN FramedOpen :
     /\ FramedOpen[k].kind = "function"
     /\ \A j \in DOMAIN FramedOpen : j > k => FramedOpen[j].kind # "function"
C16_Step ==
  (rule = "function" /\ Len(open) > 0 /\ Len(functionStack) > 0) =>
    /\ (RefersTo /\ Last(open).kind = "function") =>
         /\ Len(functionStack') = Len(functionStack)
         /\ C13_KeepsBlocks(Len(functionStack))
         /\ Len(blockStack') = Len(blockStack)
         /\ Front(blockStack') = Front(blockStack)
    /\ (LeavesNode /\ Last(open).kind = "function") =>
         /\ blockStack' = Front(blockStack)
         /\ C13_KeepsBlocks(Len(functionStack'))
         /\ lastAnalysis'[1].unit.blocks = Last(functionStack).blocks
         /\ lastAnalysis'[1].result =
              analyzeFunctionCohesion([lastAnalysis'[1].unit EXCEPT !.variables = {}],
                                      create(options))
    /\ (LeavesNode /\ Last(open).kind = "block"
          /\ Last(functionStack').blocks # Last(functionStack).blocks) =>
         /\ Len(blockStack) > C16_TopFrameIndex
         /\ Last(Last(functionStack').blocks).variables = Last(blockStack)
C17_StrayExit == nextId' = nextId + 1 /\ open' = open
C17_StrayExitNoOp ==
  [][C17_StrayExit =>
       /\ functionStack' = functionStack
       /\ blockStack' = blockStack
       /\ classStack' = classStack
       /\ reports' = reports]_vars

\* C18: in a well-nested traversal a unit is analysed exactly when it is
\* left, at most one finding is emitted for it, and an analysed unit is on no
\* stack any more, so nothing can be added to it: the unit stacks hold open
\* nodes only and currentMethod, when set, is a method of a class on the
\* stack.
OpenIds == {open[k].id : k \in DOMAIN open}
C18_LeavesUnit == LeavesNode /\ Last(open).kind \in {"function", "class"}
C18_Step ==
  /\ C18_LeavesUnit =>
       /\ Len(lastAnalysis') = 1
       /\ lastAnalysis'[1].unit.node.id = Last(open).id
       /\ \/ reports' = reports
          \/ /\ Len(reports') = Len(reports) + 1
             /\ Front(reports') = reports
             /\ Last(reports').node = Last(open).id
  /\ ~C18_LeavesUnit => lastAnalysis' = lastAnalysis /\ reports' = reports
C18_Done ==
  /\ \A i, j \in DOMAIN reports : i # j => reports[i].node # reports[j].node
  /\ \A k \in DOMAIN reports : reports[k].node \notin OpenIds
  /\ Analysed => LastUnit.node.id \notin OpenIds
  /\ \A k \in DOMAIN functionStack : functionStack[k].node \in OpenIds
  /\ \A k \in DOMAIN classStack : classStack[k].node \in OpenIds
  /\ currentMethod # 0 => InfosOf(classStack, currentMethod) # {}
C18_AnalysedOnce == [](C18_Done) /\ [][C18_Step]_vars
\* the traversal is over and the unit analysed last got the only finding
C18_Witness ==
  /\ open = <<>>
  /\ Analysed
  /\ Len(reports) = 1
  /\ reports[1].node = LastUnit.node.id

\* C19: an identifier that is the non-computed property of a member access
\* or a non-computed object property key is recorded nowhere; a declarator
\* target, an assignment target or a parameter is recorded as a write only;
\* every other identifier is recorded as a read only.
C19_Usages ==
  Range(blockStack)
    \cup UNION {{functionStack[f].blocks[b].variables :
                  b \in DOMAIN functionStack[f].blocks} : f \in DOMAIN functionStack}
    \cup (IF Analysed
          THEN {LastUnit.blocks[b].variables : b \in DOMAIN LastUnit.blocks}
          ELSE {})
C19_Classifier ==
  \A usage \in C19_Usages :
     /\ "skipped" \notin usage.reads \cup usage.writes
     /\ "written" \notin usage.reads
     /\ "read" \notin usage.writes

\* C20: with minSharedVariablePercentage = 10, the traversal of
\* customThresholdFunction (20 lines; an if block, a for block and a
\* try/catch block, each containing a callback) emits no finding.
C20_CustomThresholdValid ==
  options = customThresholdOptions => reports = <<>>

\* C21: the documented processEverything example (at least minFunctionLength
\* lines, three groups of straight-line statements that share no variables,
\* no control structure) is reported as low cohesion once it has been
\* traversed.
C21_Traversed == nextId > 0 /\ open = <<>>
C21_StraightLineReported ==
  (C21_Traversed /\ Span(LastUnit) >= create(options).minFunctionLength)
    => 1 \in ReportedNodes

\* C22: the verdict never depends on the unit's name: the analysis of the
\* same unit (same length, same blocks, same options) under any other name,
\* or without a name, has the same isLowCohesion, componentCount and groups.
C22_Verdict(result) ==
  [isLowCohesion |-> result.isLowCohesion,
   componentCount |-> result.componentCount,
   groups |-> result.groups]
C22_Renamed(unit, n) ==
  [unit EXCEPT !.node = [id |-> unit.node.id, loc |-> unit.node.loc, name |-> n]]
C22_Unnamed(unit) ==
  [unit EXCEPT !.node = [id |-> unit.node.id, loc |-> unit.node.loc]]
C22_NameIndependent ==
  FnAnalysed =>
    /\ \A n \in FunctionNames :
         C22_Verdict(analyzeFunctionCohesion(C22_Renamed(LastUnit, n), create(options)))
           = C22_Verdict(LastResult)
    /\ C22_Verdict(analyzeFunctionCohesion(C22_Unnamed(LastUnit), create(options)))
         = C22_Verdict(LastResult)
    /\ \A k \in DOMAIN reports :
         /\ reports[k].componentCount = LastResult.componentCount
         /\ reports[k].groups = LastResult.groups

\* a function called customThresholdFunction is found to have low cohesion
C22_Witness ==
  /\ FnAnalysed
  /\ LastUnit.node.name = "customThresholdFunction"
  /\ LastResult.isLowCohesion
  /\ Len(reports) = 1
  /\ reports[1].functionName = <<"Function", "customThresholdFunction">>

\* max-nesting-depth: the walker's open nodes, read independently of the
\* listener's counters
MaxOf(S) == IF S = {} THEN 0 ELSE CHOOSE x \in S : \A y \in S : y <= x
NestingCfg == createNesting(options)
FunctionIndices(nodes) == {k \in DOMAIN nodes : nodes[k].kind = "function"}
\* the control structures open within the innermost enclosing function
StructuresInFunction(nodes) ==
  Cardinality({k \in DOMAIN nodes : /\ nodes[k].kind = "structure"
                                    /\ k > MaxOf(FunctionIndices(nodes))})
\* a function that is not an immediately invoked one, or any function when
\* ignoreTopLevelIIFE holds, starts a new count wherever it is
PlainFunctions(nodes) ==
  {k \in FunctionIndices(nodes) : ~nodes[k].iife \/ NestingCfg.ignoreTopLevelIIFE}
\* so does every function inside one of those
ResettingFunctions(nodes) ==
  {k \in FunctionIndices(nodes) : \E j \in PlainFunctions(nodes) : j <= k}
\* the nodes open since the innermost function that started a new count:
\* control structures and immediately invoked functions outside every
\* other function, when ignoreTopLevelIIFE is false
NestingSinceReset(nodes) == Len(nodes) - MaxOf(ResettingFunctions(nodes))
EntersStructure == EntersNode /\ Last(open').kind = "structure"
EntersFunction == EntersNode /\ Last(open').kind = "function"

\* C23 (as stated): a control structure is reported exactly when the number
\* of control structures open within the innermost enclosing function,
\* counting itself, exceeds maxDepth, with one report carrying that depth.
C23_StatedStep ==
  IF EntersStructure
  THEN LET depth == StructuresInFunction(open')
       IN IF depth > NestingCfg.maxDepth
          THEN /\ Len(reports') = Len(reports) + 1
               /\ SubSeq(reports', 1, Len(reports)) = reports
               /\ Last(reports').node = Last(open').id
               /\ Last(reports').depth = depth
          ELSE reports' = reports
  ELSE reports' = reports \/ EntersFunction
C23_AmendedStep ==
  IF EntersStructure
  THEN LET depth == NestingSinceReset(open')
       IN IF depth > NestingCfg.maxDepth
          THEN /\ Len(reports') = Len(reports) + 1
               /\ SubSeq(reports', 1, Len(reports)) = reports
               /\ Last(reports').node = Last(open').id
               /\ Last(reports').depth = depth
               /\ Last(reports').maxDepth = NestingCfg.maxDepth
          ELSE reports' = reports
  ELSE reports' = reports \/ EntersFunction
LeavesFunction == LeavesNode /\ Last(open).kind = "function"
\* the depth is never negative and is 0 when no node is open
C24_Bounds == rule = "nesting" => (currentDepth >= 0 /\ (open = <<>> => currentDepth = 0))

\* C24 (as stated): entering a function resets the depth to 0, exiting it
\* restores the depth that was current just before it was entered (that of
\* the control structures then open within the enclosing function); the
\* depth is never negative and is 0 again at the end.
C24_StatedStep ==
  /\ EntersFunction => currentDepth' = 0
  /\ LeavesFunction => currentDepth' = StructuresInFunction(open')
C24_Measured == rule = "nesting" => currentDepth = NestingSinceReset(open)
C24_AmendedStep ==
  /\ EntersFunction =>
       IF Len(open') \in ResettingFunctions(open') THEN currentDepth' = 0
       ELSE currentDepth' = currentDepth + 1
  /\ LeavesFunction =>
       /\ currentDepth' = NestingSinceReset(open')
       /\ Len(depthStack') = Cardinality(ResettingFunctions(open'))
C25_Step ==
  (rule = "late" /\ reports' # reports) =>
    LET finding == Last(reports')
        k == ScopeOf(bindings', finding.name)
    IN k # 0 =>
         bindings'[k][finding.name].used - bindings'[k][finding.name].declared
           > createLate(options).maxLines
C25_FirstUsageOnly == [][C25_Step]_vars

\* C30: in no-late-variable-usage, when a block is left, every variable
\* declared in an enclosing scope that is still open keeps its recorded
\* declaration line, also when the block declared a variable of the same
\* name.
C30_LeavesBlock == LeavesNode /\ Last(open).kind = "blockStatement"
C30_Step ==
  C30_LeavesBlock =>
    \A name \in LateNames :
      LET k == ScopeOf(bindings', name)
      IN k # 0 =>
           /\ name \in DOMAIN variableDeclarations'
           /\ variableDeclarations'[name] = bindings'[k][name].declared
C30_EnclosingDeclarationsKept == [][C30_Step]_vars

\* C26: whenever a function-level finding is emitted, the averageOverlap it
\* reports (in tenths of a percent here) is lower than the
\* minSharedVariablePercentage it reports.
C26_AverageBelowThreshold ==
  rule = "function" =>
    \A k \in DOMAIN reports :
      reports[k].averageOverlap < 10 * reports[k].minSharedVariablePercentage

\* C27: in the function-cohesion rule, over well-nested traversals,
\* blockStack.length always is functionStack.length plus the number of open
\* control structures that were entered while a function was open; a
\* function exit pops one frame of each stack, the top one, which is that
\* function's top-level frame; when no node is open both stacks are empty.
C27_FramedStructures ==
  {k \in DOMAIN open : /\ open[k].kind = "block"
                       /\ \E j \in 1..(k - 1) : open[j].kind = "function"}
C27_Lengths ==
  rule = "function" =>
    /\ Len(blockStack) = Len(functionStack) + Cardinality(C27_FramedStructures)
    /\ open = <<>> => (functionStack = <<>> /\ blockStack = <<>>)
C27_Step ==
  (rule = "function" /\ LeavesNode /\ Last(open).kind = "function") =>
    /\ functionStack' = Front(functionStack)
    /\ blockStack' = Front(blockStack)
    /\ Last(functionStack).node = Last(open).id
    /\ Len(blockStack) = Len(FramedOpen)
C27_StackBalance == [](C27_Lengths) /\ [][C27_Step]_vars

\* a control structure entered before any function holds no frame, one
\* entered inside the function does
C27_Witness ==
  /\ rule = "function"
  /\ Len(open) = 3
  /\ open[1].kind = "block"
  /\ open[2].kind = "function"
  /\ open[3].kind = "block"
  /\ Len(functionStack) = 1
  /\ Len(blockStack) = 2

\* C28: the function-level verdict depends only on each block's union of
\* reads and writes: the unit in which every name a block uses is a read,
\* and the unit in which every such name is a write, have the same overlap
\* scores, edges, componentCount and groups (indices, and variables as
\* sets) as the unit analysed.  Any two units whose blocks use the same
\* names are thereby analysed alike.
C28_AsReads(block) ==
  [block EXCEPT !.variables = [reads |-> allVars(block), writes |-> {}]]
C28_AsWrites(block) ==
  [block EXCEPT !.variables = [reads |-> {}, writes |-> allVars(block)]]
C28_AllReads(unit) ==
  [unit EXCEPT !.blocks = [k \in DOMAIN unit.blocks |-> C28_AsReads(unit.blocks[k])]]
C28_AllWrites(unit) ==
  [unit EXCEPT !.blocks = [k \in DOMAIN unit.blocks |-> C28_AsWrites(unit.blocks[k])]]
C28_Scores(unit) ==
  [e \in (DOMAIN unit.blocks) \X (DOMAIN unit.blocks) |->
     calculateOverlapPercentage(unit.blocks[e[1]], unit.blocks[e[2]])]
C28_SameVerdict(unit) ==
  /\ C28_Scores(unit) = C28_Scores(LastUnit)
  /\ analyzeFunctionCohesion(unit, create(options)) = LastResult
C28_UnionOnly ==
  FnAnalysed =>
    /\ C28_SameVerdict(C28_AllReads(LastUnit))
    /\ C28_SameVerdict(C28_AllWrites(LastUnit))

\* a block that only writes a name and a block that only reads it are joined
C28_Witness ==
  /\ FnGated
  /\ \E i, j \in 1..FnN :
       /\ i # j
       /\ LastUnit.blocks[i].variables.reads = {}
       /\ LastUnit.blocks[i].variables.writes # {}
       /\ LastUnit.blocks[j].variables.writes = {}
       /\ LastUnit.blocks[i].variables.writes \subseteq LastUnit.blocks[j].variables.reads
       /\ <<i, j>> \in FnBuiltEdges
  /\ LastResult.isLowCohesion

\* C29: an option value of 0 is treated exactly as an absent option
\* (minSharedVariablePercentage 0 gives the threshold 30, minFunctionLength
\* 0 and minClassLength 0 give the minimum length 10), every positive value
\* is used unchanged, and the unit is analysed and reported accordingly.
C29_Defaults ==
  [minSharedVariablePercentage |-> 30, minFunctionLength |-> 10, minClassLength |-> 10]
C29_Effective == IF rule = "function" THEN create(options) ELSE createClass(options)
C29_WithoutZeros(opts) == [k \in {j \in DOMAIN opts : opts[j] # 0} |-> opts[k]]
C29_ZeroIsAbsent ==
  /\ \A k \in DOMAIN C29_Effective :
       C29_Effective[k] = IF k \in DOMAIN options /\ options[k] > 0
                          THEN options[k] ELSE C29_Defaults[k]
  /\ FnAnalysed =>
       /\ LastResult = analyzeFunctionCohesion(LastUnit, create(C29_WithoutZeros(options)))
       /\ \A k \in DOMAIN reports :
            reports[k].minSharedVariablePercentage
              = create(C29_WithoutZeros(options)).minSharedVariablePercentage
  /\ ClassAnalysed =>
       LastResult = analyzeClassCohesion(LastUnit, createClass(C29_WithoutZeros(options)))

\* with both options 0, a function of 10 lines with disjoint blocks is
\* reported against the threshold 30
C29_Witness ==
  /\ FnAnalysed
  /\ options = [minSharedVariablePercentage |-> 0, minFunctionLength |-> 0]
  /\ Len(reports) = 1
  /\ reports[1].minSharedVariablePercentage = 30
  /\ Span(LastUnit) = 10

====
